---------------------------- MODULE Spec2Model ----------------------------
(***************************************************************************)
(* Model of the investment calculator of src/src/App.vue (the script       *)
(* block of lines 521-765): the reactive state, the computed properties    *)
(* calculateData, totalInvested, taxInfo and etfBenchmarks, the editing    *)
(* functions with the watcher of durationYears, and the saving to and      *)
(* loading from localStorage.                                              *)
(*                                                                         *)
(* Numbers.  JavaScript numbers are IEEE 754 doubles.  calculateData,      *)
(* totalInvested and taxInfo are computed in binary64 itself: a double is  *)
(* its sign, its significand of 53 bits and its exponent, and +, -, * and  *)
(* / give the double nearest to the exact result, a tie going to the even  *)
(* significand, so that Math.round and toFixed get the digits they get in  *)
(* the program.  TLC's integers have 32 bits, so a significand is held in  *)
(* two parts.  Math.pow, which ECMAScript leaves to the implementation, is *)
(* computed as V8 computes it.  etfBenchmarks works on the constant table  *)
(* etfData and is computed in decimal fixed point, a product being cut to  *)
(* 10^-8: the strings toFixed gives are those of the doubles for every     *)
(* duration.                                                               *)
(***************************************************************************)
EXTENDS Integers, Sequences, FiniteSets, TLC

H == 100 * 100
W == H * H

(***************************************************************************)
(* Decimal fixed point, the numbers of etfBenchmarks.  A number is         *)
(* [hi, lo], its value hi + lo / W with hi an integer and 0 <= lo < W      *)
(* (W = 10^8): hi is the floor of the value.                               *)
(***************************************************************************)
Num(hi, lo) == [hi |-> hi, lo |-> lo]

\* the number n (an integer)
FromInt(n) == Num(n, 0)

Neg(x) ==
  IF x.lo <= 0 THEN Num(-x.hi, x.lo) ELSE Num(-x.hi - 1, W - x.lo)

\* the number hi + l / W for 0 <= l: the carry of l goes to hi
Carry(hi, l) == Num(hi + l \div W, l % W)

Add(x, y) == Carry(x.hi + y.hi, x.lo + y.lo)

Sub(x, y) == Add(x, Neg(y))

Less(x, y) == x.hi < y.hi \/ (x.hi = y.hi /\ x.lo < y.lo)

(***************************************************************************)
(* A factor is [neg, whole, f1, f0], its value                             *)
(* +-(whole + f1 / W + f0 / W^2): sixteen decimals.                        *)
(***************************************************************************)
Factor(neg, whole, f1, f0) ==
  [neg |-> neg, whole |-> whole, f1 |-> f1, f0 |-> f0]

\* hh * W + mid * H + ll as <<high, low>>, low < W
WideSum(hh, mid, ll) ==
  <<hh + mid \div H + ((mid % H) * H + ll) \div W,
    ((mid % H) * H + ll) % W>>

\* (a1 * H + a0) * (b1 * H + b0) for parts below H
WideParts(a1, a0, b1, b0) == WideSum(a1 * b1, a1 * b0 + a0 * b1, a0 * b0)

\* a * b for 0 <= a, b < W, as <<high, low>>: a * b = high * W + low
MulWide(a, b) == WideParts(a \div H, a % H, b \div H, b % H)

\* the number hi + l[1] + l[2] / W for a pair l = <<high, low>>
WithHigh(hi, l) == Num(hi + l[1], l[2])

\* x * k for an integer 0 <= k < W (exact)
MulNat(x, k) == WithHigh(x.hi * k, MulWide(x.lo, k))

\* x * n for an integer n, -W < n < W (exact)
MulInt(x, n) == IF n < 0 THEN Neg(MulNat(x, -n)) ELSE MulNat(x, n)

\* d * W + c for pairs d, c, as <<t2, t1, t0>>
Join(d, c) == <<d[1] + (d[2] + c[1]) \div W, (d[2] + c[1]) % W, c[2]>>

\* (hi * W + lo) * f for 0 <= hi, lo, f < W, as <<t2, t1, t0>>:
\* the product is t2 * W^2 + t1 * W + t0
Times(hi, lo, f) == Join(MulWide(hi, f), MulWide(lo, f))

\* m * whole + top + s1 / W, cut to a multiple of 1 / W
MulCarry(m, whole, top, s1) ==
  Carry(whole * m.hi + top + s1 \div W, whole * m.lo + (s1 % W))

\* m * whole + b / W + a / W^2 for triples b, a as Times gives them
MulSum(m, whole, b, a) ==
  MulCarry(m, whole, b[1], b[2] + a[1] + (b[3] + a[2]) \div W)

\* m * |r| for a number m >= 0 and a factor r, cut to a multiple of 1 / W
MulAbs(m, r) ==
  MulSum(m, r.whole, Times(m.hi, m.lo, r.f1), Times(m.hi, m.lo, r.f0))

\* x * r for a number x and a factor r, cut to a multiple of 1 / W
\* (towards zero)
Mul(x, r) ==
  IF x.hi < 0
  THEN IF r.neg THEN MulAbs(Neg(x), r) ELSE Neg(MulAbs(Neg(x), r))
  ELSE IF r.neg THEN Neg(MulAbs(x, r)) ELSE MulAbs(x, r)

\* Math.round: the integer nearest to x, a tie going up (floor(x + 1/2))
MathRound(x) == x.hi + (IF 2 * x.lo >= W THEN 1 ELSE 0)

(***************************************************************************)
(* IEEE 754 binary64, the numbers of JavaScript.  A double is              *)
(* [neg, hi, lo, exp], its value +-(hi * 2^27 + lo) * 2^exp with           *)
(* 2^25 <= hi < 2^26 and 0 <= lo < 2^27: a significand of 53 bits.  Zero   *)
(* is the double with hi = lo = 0 (the sign of zero is not kept), NaN the  *)
(* double with hi < 0.  Every operation rounds to the nearest double, a    *)
(* tie going to the even significand.  Subnormal numbers and infinities    *)
(* are out of the range of the model.                                      *)
(***************************************************************************)
Double(neg, hi, lo, exp) == [neg |-> neg, hi |-> hi, lo |-> lo, exp |-> exp]

DNaN == Double(FALSE, -1, 0, 0)

DZero == Double(FALSE, 0, 0, 0)

DIsNaN(x) == x.hi < 0

\* NaN as the value of Math.round and of the integer arithmetic on it: an
\* integer that no rounded amount of the model reaches
NaNInt == -2147483647

\* a - b for numbers that Math.round gave
IntSub(a, b) == IF a = NaNInt \/ b = NaNInt THEN NaNInt ELSE a - b

DIsZero(x) == x.hi = 0

\* 2^k for k in 0..30
Pow2 == [k \in 0..30 |-> 2^k]

\* the least significant bit of l set when sticky
WithSticky(l, sticky) == IF sticky /\ l % 2 = 0 THEN l + 1 ELSE l

\* h * 2^30 + l shifted right by d bits, as <<h, l>> with l < 2^30; the
\* last bit is set when a bit that is 1 was shifted out
ShiftRightSticky(h, l, d) ==
  IF d = 0 THEN <<h, l>>
  ELSE IF d < 30
  THEN <<h \div Pow2[d],
         WithSticky((h % Pow2[d]) * Pow2[30 - d] + l \div Pow2[d],
                    l % Pow2[d] # 0)>>
  ELSE IF d < 57
  THEN <<0, WithSticky(h \div Pow2[d - 30],
                       h % Pow2[d - 30] # 0 \/ l # 0)>>
  ELSE <<0, IF h # 0 \/ l # 0 THEN 1 ELSE 0>>

\* the significand hi, lo with its last three bits g, rounded to the
\* nearest, a tie going to even
RoundEven(neg, hi, lo, g, exp) ==
  IF g > 4 \/ (g = 4 /\ lo % 2 = 1)
  THEN IF lo + 1 < Pow2[27] THEN Double(neg, hi, lo + 1, exp)
       ELSE IF hi + 1 < Pow2[26] THEN Double(neg, hi + 1, 0, exp)
       ELSE Double(neg, Pow2[25], 0, exp + 1)
  ELSE Double(neg, hi, lo, exp)

\* the k in 1..25 with 2^25 <= h * 2^k < 2^26, for 0 < h < 2^25
LeadingZeros(h) ==
  CHOOSE k \in 1..25 : h * Pow2[k] >= Pow2[25] /\ h * Pow2[k] < Pow2[26]

\* h * 2^30 + l shifted left by k bits, rounded
PackShifted(neg, h, l, exp, k) ==
  RoundEven(neg, h * Pow2[k] + l \div Pow2[30 - k],
            ((l % Pow2[30 - k]) * Pow2[k]) \div 8,
            ((l % Pow2[30 - k]) * Pow2[k]) % 8, exp - k)

\* the double nearest to +-(h * 2^30 + l) * 2^(exp - 3), for
\* 0 <= h < 2^27 and 0 <= l < 2^30
RECURSIVE Pack(_, _, _, _)
Pack(neg, h, l, exp) ==
  IF h >= Pow2[26]
  THEN Pack(neg, h \div 2, WithSticky((h % 2) * Pow2[29] + l \div 2,
                                      l % 2 = 1), exp + 1)
  ELSE IF h >= Pow2[25] THEN RoundEven(neg, h, l \div 8, l % 8, exp)
  ELSE IF h > 0 THEN PackShifted(neg, h, l, exp, LeadingZeros(h))
  ELSE IF l > 0 THEN Pack(neg, l \div 16, (l % 16) * Pow2[26], exp - 26)
  ELSE DZero

\* the double n for an integer n
DInt(n) ==
  IF n = NaNInt THEN DNaN
  ELSE IF n < 0 THEN Pack(TRUE, (-n) \div Pow2[30], (-n) % Pow2[30], 3)
  ELSE Pack(FALSE, n \div Pow2[30], n % Pow2[30], 3)

\* -x
DNeg(x) == IF DIsNaN(x) \/ DIsZero(x) THEN x ELSE [x EXCEPT !.neg = ~x.neg]

\* |x| < |y| for doubles that are not NaN
MagLess(x, y) ==
  IF DIsZero(y) THEN FALSE
  ELSE IF DIsZero(x) THEN TRUE
  ELSE \/ x.exp < y.exp
       \/ x.exp = y.exp /\ (x.hi < y.hi \/ (x.hi = y.hi /\ x.lo < y.lo))

\* x < y
DLess(x, y) ==
  /\ ~DIsNaN(x)
  /\ ~DIsNaN(y)
  /\ IF x.neg THEN ~y.neg \/ MagLess(y, x)
     ELSE ~y.neg /\ MagLess(x, y)

\* the sum of the magnitudes <<h, l>> of a and b, with the sign and the
\* exponent of a
AddMag(neg, a, b, exp) ==
  Pack(neg, a[1] + b[1] + (a[2] + b[2]) \div Pow2[30],
       (a[2] + b[2]) % Pow2[30], exp)

\* the magnitude a minus the smaller magnitude b
SubMag(neg, a, b, exp) ==
  IF a[2] >= b[2] THEN Pack(neg, a[1] - b[1], a[2] - b[2], exp)
  ELSE Pack(neg, a[1] - b[1] - 1, a[2] + Pow2[30] - b[2], exp)

\* a + b for the magnitudes of x and y, aligned to the exponent of x, the
\* larger of the two exponents
AddAligned(x, y, a, b) ==
  IF x.neg = y.neg THEN AddMag(x.neg, a, b, x.exp)
  ELSE IF a = b THEN DZero
  ELSE IF a[1] > b[1] \/ (a[1] = b[1] /\ a[2] > b[2])
  THEN SubMag(x.neg, a, b, x.exp)
  ELSE SubMag(y.neg, b, a, x.exp)

\* x + y for x.exp >= y.exp
AddOrdered(x, y) ==
  AddAligned(x, y, <<x.hi, x.lo * 8>>,
             ShiftRightSticky(y.hi, y.lo * 8, x.exp - y.exp))

\* x + y
DAdd(x, y) ==
  IF DIsNaN(x) \/ DIsNaN(y) THEN DNaN
  ELSE IF DIsZero(x) THEN y
  ELSE IF DIsZero(y) THEN x
  ELSE IF x.exp >= y.exp THEN AddOrdered(x, y)
  ELSE AddOrdered(y, x)

\* x - y
DSub(x, y) == DAdd(x, DNeg(y))

\* the significand of x in four digits of base 2^14, the lowest first
Digits(x) ==
  <<x.lo % Pow2[14], x.lo \div Pow2[14] + (x.hi % 2) * Pow2[13],
    (x.hi \div 2) % Pow2[14], x.hi \div Pow2[15]>>

\* the product of the digits r[1..8] of base 2^14, shifted right by 49
\* bits with a sticky last bit, packed
MulPack(neg, r, exp) ==
  Pack(neg,
       r[6] \div Pow2[9] + r[7] * Pow2[5] + r[8] * Pow2[19],
       WithSticky(r[4] \div Pow2[7] + r[5] * Pow2[7]
                    + (r[6] % Pow2[9]) * Pow2[21],
                  r[1] # 0 \/ r[2] # 0 \/ r[3] # 0 \/ r[4] % Pow2[7] # 0),
       exp)

\* the digits k..8 of base 2^14 of the number with the column sums
\* c[1..7], t being c[k] with the carry of the columns below
RECURSIVE MulCarries(_, _, _)
MulCarries(c, k, t) ==
  IF k = 7 THEN <<t % Pow2[14], t \div Pow2[14]>>
  ELSE <<t % Pow2[14]>> \o MulCarries(c, k + 1, c[k + 1] + t \div Pow2[14])

\* the column sums of the product of the digits a and b
MulColumns(a, b) ==
  <<a[1] * b[1],
    a[1] * b[2] + a[2] * b[1],
    a[1] * b[3] + a[2] * b[2] + a[3] * b[1],
    a[1] * b[4] + a[2] * b[3] + a[3] * b[2] + a[4] * b[1],
    a[2] * b[4] + a[3] * b[3] + a[4] * b[2],
    a[3] * b[4] + a[4] * b[3],
    a[4] * b[4]>>

\* the eight digits of base 2^14 of the number with the column sums c
MulDigits(c) == MulCarries(c, 1, c[1])

\* x * y
DMul(x, y) ==
  IF DIsNaN(x) \/ DIsNaN(y) THEN DNaN
  ELSE IF DIsZero(x) \/ DIsZero(y) THEN DZero
  ELSE MulPack(x.neg # y.neg, MulDigits(MulColumns(Digits(x), Digits(y))),
               x.exp + y.exp + 52)

\* a >= b for pairs <<hi, lo>> of base 2^27
PairGeq(a, b) == a[1] > b[1] \/ (a[1] = b[1] /\ a[2] >= b[2])

\* a - b for pairs of base 2^27, a >= b
PairSub(a, b) ==
  IF a[2] >= b[2] THEN <<a[1] - b[1], a[2] - b[2]>>
  ELSE <<a[1] - b[1] - 1, a[2] + Pow2[27] - b[2]>>

\* the quotient q = <<h, l>> of base 2^30 with the bit appended
QuotientBit(q, bit) ==
  <<2 * q[1] + (2 * q[2] + bit) \div Pow2[30], (2 * q[2] + bit) % Pow2[30]>>

\* n steps of the long division by d, from the quotient q so far and the
\* remainder r (below d): the quotient and the remainder after them
RECURSIVE DivSteps(_, _, _, _)
RECURSIVE DivStep(_, _, _, _)
DivSteps(q, r, d, n) ==
  IF n = 0 THEN <<q, r>>
  ELSE DivStep(q, <<2 * r[1] + (2 * r[2]) \div Pow2[27],
                    (2 * r[2]) % Pow2[27]>>, d, n)

DivStep(q, r2, d, n) ==
  IF PairGeq(r2, d)
  THEN DivSteps(QuotientBit(q, 1), PairSub(r2, d), d, n - 1)
  ELSE DivSteps(QuotientBit(q, 0), r2, d, n - 1)

\* the quotient of the state s, its last bit set when a remainder is left
DivSticky(s) == <<s[1][1], WithSticky(s[1][2], s[2] # <<0, 0>>)>>

\* n more steps from the state s = <<q, r>>, fourteen at a time
RECURSIVE DivFrom(_, _, _)
DivFrom(s, d, n) ==
  IF n = 0 THEN s ELSE DivFrom(DivSteps(s[1], s[2], d, 14), d, n - 14)

\* 56 steps from the state s
DivAll(s, d) == DivSticky(DivFrom(s, d, 56))

\* the quotient of the significands of x and y in 56 or 57 bits
DivQuotient(x, y) ==
  IF PairGeq(<<x.hi, x.lo>>, <<y.hi, y.lo>>)
  THEN DivAll(<<<<0, 1>>, PairSub(<<x.hi, x.lo>>, <<y.hi, y.lo>>)>>,
              <<y.hi, y.lo>>)
  ELSE DivAll(<<<<0, 0>>, <<x.hi, x.lo>>>>, <<y.hi, y.lo>>)

DivPack(neg, q, exp) == Pack(neg, q[1], q[2], exp)

\* x / y for y # 0
DDiv(x, y) ==
  IF DIsNaN(x) \/ DIsNaN(y) \/ DIsZero(y) THEN DNaN
  ELSE IF DIsZero(x) THEN DZero
  ELSE DivPack(x.neg # y.neg, DivQuotient(x, y), x.exp - y.exp - 53)

\* Math.max(x, y)
DMax(x, y) ==
  IF DIsNaN(x) \/ DIsNaN(y) THEN DNaN ELSE IF DLess(x, y) THEN y ELSE x

\* floor((hi * 2^27 + lo) / 2^s), below 2^31
FloorShift(hi, lo, s) ==
  IF s <= 0 THEN (hi * Pow2[27] + lo) * Pow2[-s]
  ELSE IF s < 27 THEN hi * Pow2[27 - s] + lo \div Pow2[s]
  ELSE IF s < 57 THEN hi \div Pow2[s - 27]
  ELSE 0

\* whether hi * 2^27 + lo is a multiple of 2^s
WholeShift(hi, lo, s) ==
  IF s <= 0 THEN TRUE
  ELSE IF s <= 27 THEN lo % Pow2[s] = 0
  ELSE IF s < 57 THEN lo = 0 /\ hi % Pow2[s - 27] = 0
  ELSE FALSE

\* floor(|x| * 2^k) for a double x # 0 with |x| * 2^k < 2^31
FloorScaled(x, k) == FloorShift(x.hi, x.lo, -(x.exp + k))

\* whether |x| * 2^k is a whole number
WholeScaled(x, k) == WholeShift(x.hi, x.lo, -(x.exp + k))

\* the bit of weight 2^k of hi * 2^27 + lo
BitAt(hi, lo, k) ==
  IF k < 0 \/ k > 56 THEN 0
  ELSE IF k < 27 THEN (lo \div Pow2[k]) % 2
  ELSE (hi \div Pow2[k - 27]) % 2

\* Math.round(x) for |x| < 2^31 - 1: floor(x + 1/2), NaN for NaN
DRound(x) ==
  IF DIsNaN(x) THEN NaNInt
  ELSE IF DIsZero(x) THEN 0
  ELSE IF ~x.neg THEN FloorScaled(x, 0) + BitAt(x.hi, x.lo, -x.exp - 1)
  ELSE IF BitAt(x.hi, x.lo, -x.exp - 1) = 0 \/ WholeScaled(x, 1)
  THEN -FloorScaled(x, 0)
  ELSE -(FloorScaled(x, 0) + 1)

\* the double units + frac / 10^8 with its sign, as the literal of the
\* number is read: units < 9 * 10^7
DDec(neg, units, frac) ==
  IF frac = 0 THEN DInt(IF neg THEN -units ELSE units)
  ELSE DDiv(DAdd(DMul(DInt(IF neg THEN -units ELSE units), DInt(W)),
                 DInt(IF neg THEN -frac ELSE frac)),
            DInt(W))

(***************************************************************************)
(* Math.pow.  ECMAScript leaves the result of Math.pow to the              *)
(* implementation.  The operators below are the function of V8 (ieee754    *)
(* pow, the port of e_pow.c of fdlibm, with the last quotient taken as V8  *)
(* takes it), the engine of Node.js and Chromium: the same sequence of     *)
(* double operations on the same constants, so that the result is the      *)
(* double the program receives, bit for bit.  A double is handled there    *)
(* as two words of 32 bits: the high word holds the sign, the exponent     *)
(* and the first 20 bits after the leading one, the low word the other 32. *)
(***************************************************************************)

\* the double with the sign neg, the high word high (without its sign
\* bit) and the low word l1 * 2^16 + l0
FromWords(neg, high, l1, l0) ==
  Double(neg,
         Pow2[25] + (high % Pow2[20]) * 32 + l1 \div Pow2[11],
         (l1 % Pow2[11]) * Pow2[16] + l0,
         high \div Pow2[20] - 1075)

\* the high word of |x| for x # 0
HighWord(x) == (x.exp + 1075) * Pow2[20] + (x.hi - Pow2[25]) \div 32

\* x with its low word set to 0
LowWordZero(x) ==
  IF DIsNaN(x) \/ DIsZero(x) THEN x
  ELSE Double(x.neg, (x.hi \div 32) * 32, 0, x.exp)

\* the constants of pow, by their words
fdlibm ==
  [bp    |-> <<DInt(1), FromWords(FALSE, \h3FF80000, 0, 0)>>,
   dp_h  |-> <<DZero, FromWords(FALSE, \h3FE2B803, \h4000, \h0000)>>,
   dp_l  |-> <<DZero, FromWords(FALSE, \h3E4CFDEB, \h43CF, \hD006)>>,
   L1    |-> FromWords(FALSE, \h3FE33333, \h3333, \h3303),
   L2    |-> FromWords(FALSE, \h3FDB6DB6, \hDB6F, \hABFF),
   L3    |-> FromWords(FALSE, \h3FD55555, \h518F, \h264D),
   L4    |-> FromWords(FALSE, \h3FD17460, \hA91D, \h4101),
   L5    |-> FromWords(FALSE, \h3FCD864A, \h93C9, \hDB65),
   L6    |-> FromWords(FALSE, \h3FCA7E28, \h4A45, \h4EEF),
   P1    |-> FromWords(FALSE, \h3FC55555, \h5555, \h553E),
   P2    |-> FromWords(TRUE,  \h3F66C16C, \h16BE, \hBD93),
   P3    |-> FromWords(FALSE, \h3F11566A, \hAF25, \hDE2C),
   P4    |-> FromWords(TRUE,  \h3EBBBD41, \hC5D2, \h6BF1),
   P5    |-> FromWords(FALSE, \h3E663769, \h72BE, \hA4D0),
   lg2   |-> FromWords(FALSE, \h3FE62E42, \hFEFA, \h39EF),
   lg2_h |-> FromWords(FALSE, \h3FE62E43, \h0000, \h0000),
   lg2_l |-> FromWords(TRUE,  \h3E205C61, \h0CA8, \h6C39),
   cp    |-> FromWords(FALSE, \h3FEEC709, \hDC3A, \h03FD),
   cp_h  |-> FromWords(FALSE, \h3FEEC709, \hE000, \h0000),
   cp_l  |-> FromWords(TRUE,  \h3E3E2FE0, \h145B, \h01F5)]

\* the variables of pow before the first line below, for x > 0 and
\* x # 1: n the exponent of x and ax its significand, in the interval k
\* (ax < sqrt(3/2), ax < sqrt(3), or the half of ax with n + 1); j is the
\* first 20 bits of the significand.  k is the index into bp, dp_h and
\* dp_l, 1 or 2 where the source has 0 or 1.
PowInterval(x, y, j) ==
  [line |-> 1, y |-> y,
   n |-> x.exp + 52 + (IF j >= \hBB67A THEN 1 ELSE 0),
   k |-> IF j > \h3988E /\ j < \hBB67A THEN 2 ELSE 1,
   ax |-> Double(FALSE, x.hi, x.lo, IF j >= \hBB67A THEN -53 ELSE -52),
   u |-> DZero, v |-> DZero, ss |-> DZero, s_h |-> DZero, s_l |-> DZero,
   t_h |-> DZero, t_l |-> DZero, s2 |-> DZero, r |-> DZero,
   p_h |-> DZero, p_l |-> DZero, z_h |-> DZero, z_l |-> DZero,
   t |-> DZero, t1 |-> DZero, t2 |-> DZero, y1 |-> DZero, z |-> DZero,
   w |-> DZero]

\* the assignment of line i of pow to the variables m
PowLine(m, i) ==
  CASE i = 1 -> [m EXCEPT !.u = DSub(m.ax, fdlibm.bp[m.k])]
    [] i = 2 -> [m EXCEPT !.v = DDiv(DInt(1), DAdd(m.ax, fdlibm.bp[m.k]))]
    [] i = 3 -> [m EXCEPT !.ss = DMul(m.u, m.v)]
    [] i = 4 -> [m EXCEPT !.s_h = LowWordZero(m.ss)]
    [] i = 5 -> [m EXCEPT !.t_h =
                   FromWords(FALSE,
                             HighWord(m.ax) \div 2 + \h20000000 + \h00080000
                               + (m.k - 1) * Pow2[18], 0, 0)]
    [] i = 6 -> [m EXCEPT !.t_l = DSub(m.ax, DSub(m.t_h, fdlibm.bp[m.k]))]
    [] i = 7 -> [m EXCEPT !.s_l =
                   DMul(m.v, DSub(DSub(m.u, DMul(m.s_h, m.t_h)),
                                  DMul(m.s_h, m.t_l)))]
    [] i = 8 -> [m EXCEPT !.s2 = DMul(m.ss, m.ss)]
    [] i = 9 -> [m EXCEPT !.r =
                   DMul(DMul(m.s2, m.s2),
                        DAdd(fdlibm.L1, DMul(m.s2,
                        DAdd(fdlibm.L2, DMul(m.s2,
                        DAdd(fdlibm.L3, DMul(m.s2,
                        DAdd(fdlibm.L4, DMul(m.s2,
                        DAdd(fdlibm.L5, DMul(m.s2, fdlibm.L6)))))))))))]
    [] i = 10 -> [m EXCEPT !.r = DAdd(m.r, DMul(m.s_l, DAdd(m.s_h, m.ss)))]
    [] i = 11 -> [m EXCEPT !.s2 = DMul(m.s_h, m.s_h)]
    [] i = 12 -> [m EXCEPT !.t_h =
                    LowWordZero(DAdd(DAdd(DInt(3), m.s2), m.r))]
    [] i = 13 -> [m EXCEPT !.t_l =
                    DSub(m.r, DSub(DSub(m.t_h, DInt(3)), m.s2))]
    [] i = 14 -> [m EXCEPT !.u = DMul(m.s_h, m.t_h)]
    [] i = 15 -> [m EXCEPT !.v =
                    DAdd(DMul(m.s_l, m.t_h), DMul(m.t_l, m.ss))]
    [] i = 16 -> [m EXCEPT !.p_h = LowWordZero(DAdd(m.u, m.v))]
    [] i = 17 -> [m EXCEPT !.p_l = DSub(m.v, DSub(m.p_h, m.u))]
    [] i = 18 -> [m EXCEPT !.z_h = DMul(fdlibm.cp_h, m.p_h)]
    [] i = 19 -> [m EXCEPT !.z_l =
                    DAdd(DAdd(DMul(fdlibm.cp_l, m.p_h),
                              DMul(m.p_l, fdlibm.cp)), fdlibm.dp_l[m.k])]
    [] i = 20 -> [m EXCEPT !.t = DInt(m.n)]
    [] i = 21 -> [m EXCEPT !.t1 =
                    LowWordZero(DAdd(DAdd(DAdd(m.z_h, m.z_l),
                                          fdlibm.dp_h[m.k]), m.t))]
    [] i = 22 -> [m EXCEPT !.t2 =
                    DSub(m.z_l, DSub(DSub(DSub(m.t1, m.t),
                                          fdlibm.dp_h[m.k]), m.z_h))]
    [] i = 23 -> [m EXCEPT !.y1 = LowWordZero(m.y)]
    [] i = 24 -> [m EXCEPT !.p_l =
                    DAdd(DMul(DSub(m.y, m.y1), m.t1), DMul(m.y, m.t2))]
    [] i = 25 -> [m EXCEPT !.p_h = DMul(m.y1, m.t1)]
    [] i = 26 -> [m EXCEPT !.z = DAdd(m.p_l, m.p_h)]
    [] i = 27 -> [m EXCEPT !.n =
                    IF DIsZero(m.z) \/ HighWord(m.z) <= \h3FE00000 THEN 0
                    ELSE IF m.z.neg THEN -DRound(DNeg(m.z))
                    ELSE DRound(m.z)]
    [] i = 28 -> [m EXCEPT !.p_h = DSub(m.p_h, DInt(m.n))]
    [] i = 29 -> [m EXCEPT !.t = LowWordZero(DAdd(m.p_l, m.p_h))]
    [] i = 30 -> [m EXCEPT !.u = DMul(m.t, fdlibm.lg2_h)]
    [] i = 31 -> [m EXCEPT !.v =
                    DAdd(DMul(DSub(m.p_l, DSub(m.t, m.p_h)), fdlibm.lg2),
                         DMul(m.t, fdlibm.lg2_l))]
    [] i = 32 -> [m EXCEPT !.z = DAdd(m.u, m.v)]
    [] i = 33 -> [m EXCEPT !.w = DSub(m.v, DSub(m.z, m.u))]
    [] i = 34 -> [m EXCEPT !.t = DMul(m.z, m.z)]
    [] i = 35 -> [m EXCEPT !.t1 =
                    DSub(m.z, DMul(m.t,
                    DAdd(fdlibm.P1, DMul(m.t,
                    DAdd(fdlibm.P2, DMul(m.t,
                    DAdd(fdlibm.P3, DMul(m.t,
                    DAdd(fdlibm.P4, DMul(m.t, fdlibm.P5))))))))))]
    [] i = 36 -> [m EXCEPT !.r =
                    DDiv(DMul(m.z, m.t1),
                         DSub(DSub(m.t1, DInt(2)),
                              DAdd(m.w, DMul(m.z, m.w))))]
    [] i = 37 -> [m EXCEPT !.z = DSub(DInt(1), DSub(m.r, m.z))]
    [] OTHER -> [m EXCEPT !.z = Double(m.z.neg, m.z.hi, m.z.lo,
                                       m.z.exp + m.n)]

\* the variables after the last line, from the variables m before the
\* line m.line
RECURSIVE PowFrom(_)
PowFrom(m) ==
  IF m.line > 38 THEN m
  ELSE PowFrom([PowLine(m, m.line) EXCEPT !.line = @ + 1])

\* Math.pow(x, y) for x > 0
PowPositive(x, y) ==
  IF x = DInt(1) THEN x
  ELSE PowFrom(PowInterval(x, y, HighWord(x) % Pow2[20])).z

\* Math.pow(x, y), the cases of pow in their order.  A negative base
\* gives NaN unless y is a whole number, and the negative power for an
\* odd y.  Out of the range of the model: an infinite result (0 to a
\* negative power), |y| >= 2^31, and y = 0.5 (the square root), which no
\* call of calculateData and taxInfo passes.
MathPow(x, y) ==
  IF DIsZero(y) THEN DInt(1)
  ELSE IF DIsNaN(x) \/ DIsNaN(y) THEN DNaN
  ELSE IF DIsZero(x) THEN (IF y.neg THEN DNaN ELSE DZero)
  ELSE IF y = DInt(1) THEN x
  ELSE IF y = DInt(-1) THEN DDiv(DInt(1), x)
  ELSE IF y = DInt(2) THEN DMul(x, x)
  ELSE IF ~x.neg THEN PowPositive(x, y)
  ELSE IF ~WholeScaled(y, 0) THEN DNaN
  ELSE IF BitAt(y.hi, y.lo, -y.exp) = 1 THEN DNeg(PowPositive(DNeg(x), y))
  ELSE PowPositive(DNeg(x), y)

(***************************************************************************)
(* The values of MathPow on the arguments of the sliders and beyond,       *)
(* computed once: Math.pow(1 + rate / 100, 1 / 12) for the whole annual    *)
(* rates from -100 to 100 percent, and Math.pow(1.02, n) for n from 0 to   *)
(* 60.  An entry is <<hi, lo, exp>>.                                       *)
(***************************************************************************)
PowTwelfth ==
  <<<<0, 0, 0>>, <<45720736, 108272010, -53>>, <<48439433, 39406594, -53>>,
    <<50104106, 118787100, -53>>, <<51319791, 118950496, -53>>,
    <<52283026, 89408307, -53>>, <<53083452, 16176697, -53>>,
    <<53769754, 128079650, -53>>, <<54371425, 68945196, -53>>,
    <<54907722, 60267636, -53>>, <<55391937, 28747055, -53>>,
    <<55833640, 40286412, -53>>, <<56239958, 59443118, -53>>,
    <<56616345, 74305325, -53>>, <<56967070, 129760299, -53>>,
    <<57295541, 17894276, -53>>, <<57604518, 96563105, -53>>,
    <<57896276, 13304494, -53>>, <<58172705, 71144722, -53>>,
    <<58435399, 124687186, -53>>, <<58685713, 27312412, -53>>,
    <<58924806, 8511558, -53>>, <<59153681, 43184334, -53>>,
    <<59373211, 61479047, -53>>, <<59584160, 53490851, -53>>,
    <<59787200, 122601769, -53>>, <<59982928, 87449702, -53>>,
    <<60171873, 75742333, -53>>, <<60354509, 37991730, -53>>,
    <<60531260, 117394331, -53>>, <<60702511, 40547229, -53>>,
    <<60868606, 112935453, -53>>, <<61029861, 87454622, -53>>,
    <<61186561, 87457676, -53>>, <<61338967, 111113536, -53>>,
    <<61487319, 9270767, -53>>, <<61631834, 81623102, -53>>,
    <<61772716, 18046398, -53>>, <<61910149, 84408554, -53>>,
    <<62044306, 129397443, -53>>, <<62175347, 40970659, -53>>,
    <<62303418, 45731286, -53>>, <<62428657, 49186520, -53>>,
    <<62551192, 32886387, -53>>, <<62671142, 34344056, -53>>,
    <<62788618, 114329947, -53>>, <<62903726, 44748094, -53>>,
    <<63016562, 60671131, -53>>, <<63127218, 127592142, -53>>,
    <<63235782, 6619244, -53>>, <<63342332, 118494020, -53>>,
    <<63446947, 120186414, -53>>, <<63549699, 26562374, -53>>,
    <<63650654, 119599177, -53>>, <<63749879, 48298969, -53>>,
    <<63847433, 72524744, -53>>, <<63943375, 21953729, -53>>,
    <<64037758, 131231203, -53>>, <<64130636, 127739402, -53>>,
    <<64222058, 61901015, -53>>, <<64312070, 61673500, -53>>,
    <<64400717, 85178387, -53>>, <<64488042, 74298340, -53>>,
    <<64574085, 106748474, -53>>, <<64658886, 9893297, -53>>,
    <<64742480, 47049025, -53>>, <<64824903, 126248015, -53>>,
    <<64906190, 81703923, -53>>, <<64986372, 88544803, -53>>,
    <<65065481, 2936712, -53>>, <<65143545, 43590826, -53>>,
    <<65220593, 130366184, -53>>, <<65296654, 27511921, -53>>,
    <<65371752, 23167982, -53>>, <<65445912, 131907743, -53>>,
    <<65519160, 102068660, -53>>, <<65591518, 93693862, -53>>,
    <<65663009, 13855751, -53>>, <<65733653, 59532087, -53>>,
    <<65803472, 52146180, -53>>, <<65872485, 113936025, -53>>,
    <<65940713, 1823455, -53>>, <<66008172, 51596756, -53>>,
    <<66074881, 108549576, -53>>, <<66140858, 68474467, -53>>,
    <<66206119, 15763239, -53>>, <<66270679, 92848452, -53>>,
    <<66334555, 101001352, -53>>, <<66397762, 40459875, -53>>,
    <<66460313, 113504691, -53>>, <<66522224, 56277540, -53>>,
    <<66583507, 81054282, -53>>, <<66644176, 73539704, -53>>,
    <<66704243, 132201266, -53>>, <<66763722, 33731457, -53>>,
    <<66822623, 40565971, -53>>, <<66880958, 97675217, -53>>,
    <<66938739, 102990718, -53>>, <<66995977, 43513332, -53>>,
    <<67052681, 131327067, -53>>, <<33554432, 0, -52>>,
    <<33582266, 91301507, -52>>, <<33609849, 117103324, -52>>,
    <<33637186, 37764630, -52>>, <<33664280, 64277875, -52>>,
    <<33691136, 122065388, -52>>, <<33717759, 120051230, -52>>,
    <<33744153, 85485929, -52>>, <<33770322, 30307982, -52>>,
    <<33796269, 85914556, -52>>, <<33821999, 101036435, -52>>,
    <<33847516, 44895829, -52>>, <<33872823, 7688736, -52>>,
    <<33897923, 66828485, -52>>, <<33922821, 18951565, -52>>,
    <<33947519, 51428592, -52>>, <<33972021, 71680004, -52>>,
    <<33996330, 110216524, -52>>, <<34020450, 52574756, -52>>,
    <<34044383, 42326029, -52>>, <<34068132, 78764229, -52>>,
    <<34091701, 17232901, -52>>, <<34115091, 106310015, -52>>,
    <<34138307, 48585130, -52>>, <<34161350, 74690468, -52>>,
    <<34184224, 4054657, -52>>, <<34206930, 50476034, -52>>,
    <<34229472, 17072846, -52>>, <<34251851, 101836278, -52>>,
    <<34274071, 92561312, -52>>, <<34296134, 38163582, -52>>,
    <<34318041, 114681258, -52>>, <<34339796, 88615538, -52>>,
    <<34361400, 122440559, -52>>, <<34382856, 103710822, -52>>,
    <<34404166, 47903249, -52>>, <<34425331, 98599220, -52>>,
    <<34446354, 125006851, -52>>, <<34467237, 124783377, -52>>,
    <<34487982, 89980602, -52>>, <<34508591, 7202338, -52>>,
    <<34529064, 126191773, -52>>, <<34549406, 20454022, -52>>,
    <<34569616, 63792708, -52>>, <<34589697, 88269414, -52>>,
    <<34609651, 55424390, -52>>, <<34629479, 56404167, -52>>,
    <<34649183, 43649419, -52>>, <<34668764, 99449639, -52>>,
    <<34688225, 33405211, -52>>, <<34707566, 53627531, -52>>,
    <<34726789, 95758188, -52>>, <<34745896, 91508755, -52>>,
    <<34764888, 102979478, -52>>, <<34783767, 54321553, -52>>,
    <<34802534, 267196, -52>>, <<34821189, 126221274, -52>>,
    <<34839736, 77261408, -52>>, <<34858175, 31965772, -52>>,
    <<34876507, 31407765, -52>>, <<34894733, 113454474, -52>>,
    <<34912856, 44409484, -52>>, <<34930875, 124395128, -52>>,
    <<34948793, 113684250, -52>>, <<34966611, 38077941, -52>>,
    <<34984329, 54757049, -52>>, <<35001949, 49696180, -52>>,
    <<35019472, 40382073, -52>>, <<35036899, 41659159, -52>>,
    <<35054231, 65790989, -52>>, <<35071469, 122519893, -52>>,
    <<35088615, 84907180, -52>>, <<35105669, 92042593, -52>>,
    <<35122633, 12228065, -52>>, <<35139506, 114119473, -52>>,
    <<35156291, 127254164, -52>>, <<35172989, 47407494, -52>>,
    <<35189600, 2423878, -52>>, <<35206124, 118046482, -52>>,
    <<35222564, 115310160, -52>>, <<35238920, 115892674, -52>>,
    <<35255193, 105287414, -52>>, <<35271384, 67063573, -52>>,
    <<35287493, 117125185, -52>>, <<35303522, 101098135, -52>>,
    <<35319471, 131240202, -52>>, <<35335342, 49608233, -52>>,
    <<35351134, 99183872, -52>>, <<35366849, 118603300, -52>>,
    <<35382488, 79063324, -52>>, <<35398051, 84355626, -52>>,
    <<35413539, 102464689, -52>>, <<35428953, 99818035, -52>>,
    <<35444294, 41317917, -52>>, <<35459562, 24589918, -52>>,
    <<35474758, 11577604, -52>>, <<35489882, 97007318, -52>>,
    <<35504936, 105763602, -52>>, <<35519920, 129788010, -52>>,
    <<35534835, 125453124, -52>>, <<35549682, 47806819, -52>>>>

PowInflation ==
  <<<<33554432, 0, -52>>, <<34225520, 85899346, -52>>,
    <<34910031, 7086696, -52>>, <<35608231, 90443422, -52>>,
    <<36320396, 41249553, -52>>, <<37046804, 31337126, -52>>,
    <<37787740, 42701287, -52>>, <<38543495, 16711767, -52>>,
    <<39314365, 3624230, -52>>, <<40100652, 43962033, -52>>,
    <<40902665, 50209983, -52>>, <<41720718, 91479501, -52>>,
    <<42555133, 7409746, -52>>, <<43406235, 96141641, -52>>,
    <<44274360, 57799155, -52>>, <<45159847, 85798684, -52>>,
    <<46063044, 79461594, -52>>, <<46984305, 64944699, -52>>,
    <<47923991, 79665366, -52>>, <<48882471, 57099482, -52>>,
    <<49860120, 114612918, -52>>, <<50857323, 36374540, -52>>,
    <<51874469, 98842185, -52>>, <<52911959, 17604038, -52>>,
    <<53970198, 42115310, -52>>, <<55049602, 37588907, -52>>,
    <<56150594, 43709394, -52>>, <<57273606, 28477455, -52>>,
    <<58419078, 45153132, -52>>, <<59587459, 121218122, -52>>,
    <<60779209, 13583948, -52>>, <<61994793, 38014818, -52>>,
    <<63234689, 19984632, -52>>, <<64499382, 125074153, -52>>,
    <<65789370, 79257254, -52>>, <<67105158, 311763, -52>>,
    <<34223630, 78005281, -51>>, <<34908103, 25878296, -51>>,
    <<35606265, 34448925, -51>>, <<36318390, 75403222, -51>>,
    <<37044758, 50067741, -51>>, <<37785653, 72543933, -51>>,
    <<38541366, 82047875, -51>>, <<39312193, 126638506, -51>>,
    <<40098437, 110380794, -51>>, <<40900406, 77691801, -51>>,
    <<41718414, 95351764, -51>>, <<42552783, 622036, -51>>,
    <<43403838, 89218176, -51>>, <<44271915, 58790286, -51>>,
    <<45157353, 100231410, -51>>, <<46060500, 110289102, -51>>,
    <<46981710, 112494884, -51>>, <<47921345, 7370600, -51>>,
    <<48879771, 128313966, -51>>, <<49857367, 53033964, -51>>,
    <<50854514, 99728671, -51>>, <<51871605, 5086480, -51>>,
    <<52909037, 18609982, -51>>, <<53967217, 118303301, -51>>,
    <<55046562, 32085667, -51>>>>

\* the double of an entry <<hi, lo, exp>> of a table
Entry(e) == Double(FALSE, e[1], e[2], e[3])

\* monthlyRate of a year with the annual rate in percent:
\* Math.pow(1 + annualRate, 1 / 12) - 1 with annualRate = rate / 100
MonthlyRate(rate) ==
  DSub(IF rate \in -100..100 THEN Entry(PowTwelfth[rate + 101])
       ELSE MathPow(DAdd(DInt(1), DDiv(DInt(rate), DInt(100))),
                    DDiv(DInt(1), DInt(12))),
       DInt(1))

\* currentBalance * monthlyRate
MonthlyGain(balance, rate) == DMul(balance, MonthlyRate(rate))

(***************************************************************************)
(* State.  The refs of the component, and the position of an evaluation    *)
(* of calculateData in its two loops.                                      *)
(***************************************************************************)
VARIABLES
  initialCapital, durationYears, reinvestGains, yieldPhases, transactions,
  pc, year, month, currentBalance, totalGains, yearDeposits, yearReturns,
  results, finalBalance, totalInvested, taxInfo,
  etfIndex, etfYear, cumulative, years, etfBenchmarks, localStorage

vars == <<initialCapital, durationYears, reinvestGains, yieldPhases,
          transactions, pc, year, month, currentBalance, totalGains,
          yearDeposits, yearReturns, results, finalBalance, totalInvested,
          taxInfo, etfIndex, etfYear, cumulative, years, etfBenchmarks,
          localStorage>>

\* the refs
config == <<initialCapital, durationYears, reinvestGains, yieldPhases,
            transactions>>

\* the locals of calculateData
calcVars == <<year, month, currentBalance, totalGains, yearDeposits,
              yearReturns, results>>

\* what taxInfo reads and returns
taxVars == <<finalBalance, totalInvested, taxInfo>>

\* the position of etfData.map, the locals of its callback and its result
etfVars == <<etfIndex, etfYear, cumulative, years, etfBenchmarks>>

(***************************************************************************)
(* calculateData: the period resolver.                                     *)
(***************************************************************************)
\* yieldPhases.filter(p => year >= p.startYear && year <= p.endYear)
MatchingPhases(phases, y) ==
  SelectSeq(phases, LAMBDA p : y >= p.startYear /\ y <= p.endYear)

\* PhaseRate with find in place of filter and last element: the first
\* matching phase wins
PhaseRateFirst(phases, y) ==
  LET matchingPhases == MatchingPhases(phases, y)
  IN  IF Len(matchingPhases) > 0 THEN matchingPhases[1].rate ELSE 0

\* phase.rate, phase the last matching phase or { rate: 0 }
PhaseRate(phases, y) ==
  LET matchingPhases == MatchingPhases(phases, y)
  IN  IF Len(matchingPhases) > 0
      THEN matchingPhases[Len(matchingPhases)].rate
      ELSE 0

\* EffectiveEnd without the customDuration test: the stored endYear
EffectiveEndStored(t, dur) == t.endYear

\* effectiveEnd of a transaction
EffectiveEnd(t, dur) ==
  IF ~t.customDuration /\ t.type = "monthly" THEN dur ELSE t.endYear

\* IsActive without the test year >= t.startYear
IsActiveUpTo(t, y, dur) ==
  y <= (IF t.type = "monthly" THEN EffectiveEnd(t, dur) ELSE t.startYear)

\* isActive of a transaction in a year
IsActive(t, y, dur) ==
  y >= t.startYear
  /\ y <= (IF t.type = "monthly" THEN EffectiveEnd(t, dur) ELSE t.startYear)

\* Applies without the month test of a once transaction
AppliesEveryMonth(t, y, m, dur) == IsActive(t, y, dur)

\* whether the forEach body adds t.amount in month m of year y
Applies(t, y, m, dur) ==
  IsActive(t, y, dur)
  /\ (t.type = "monthly" \/ (t.type = "once" /\ m = 1))

(***************************************************************************)
(* calculateData: the balance simulator.  The locals of the loops are a    *)
(* record s = [currentBalance, totalGains, yearDeposits, yearReturns] of   *)
(* doubles.                                                                *)
(***************************************************************************)
\* AfterDeposit without yearDeposits += t.amount
AfterDepositUncounted(s, amount) ==
  [s EXCEPT !.currentBalance = DAdd(@, amount)]

\* currentBalance += t.amount; yearDeposits += t.amount
AfterDeposit(s, amount) ==
  [s EXCEPT !.currentBalance = DAdd(@, amount),
            !.yearDeposits = DAdd(@, amount)]

\* the locals after transactions.forEach of month m of year y, which adds
\* the amounts one by one in the order of the list
RECURSIVE AfterDeposits(_, _, _, _, _)
AfterDeposits(s, txs, y, m, dur) ==
  IF txs = <<>> THEN s
  ELSE AfterDeposits(IF Applies(Head(txs), y, m, dur)
                     THEN AfterDeposit(s, Head(txs).amount) ELSE s,
                     Tail(txs), y, m, dur)

\* the locals after the gain of a month was booked
AfterGain(s, monthlyGain, reinvest) ==
  [s EXCEPT !.yearReturns = DAdd(@, monthlyGain),
            !.currentBalance = IF reinvest THEN DAdd(@, monthlyGain) ELSE @,
            !.totalGains = DAdd(@, monthlyGain)]

\* the gain of a month, taken on the current balance, and its booking
MonthEnd(s, rate, reinvest) ==
  AfterGain(s, MonthlyGain(s.currentBalance, rate), reinvest)

\* MonthBody without the reinvestGains test: the gain always joins the
\* balance
MonthBodyCompound(s, txs, phases, dur, reinvest, y, m) ==
  MonthEnd(AfterDeposits(s, txs, y, m, dur), PhaseRate(phases, y), TRUE)

\* MonthBody with the gain taken before the transactions are applied
MonthBodyGainFirst(s, txs, phases, dur, reinvest, y, m) ==
  AfterDeposits(MonthEnd(s, PhaseRate(phases, y), reinvest), txs, y, m, dur)

\* MonthBody with the gain taken on the balance the month opened with and
\* booked after the transactions
MonthBodyGainOnOpening(s, txs, phases, dur, reinvest, y, m) ==
  AfterGain(AfterDeposits(s, txs, y, m, dur),
            MonthlyGain(s.currentBalance, PhaseRate(phases, y)), reinvest)

\* one pass of the body of the month loop: the forEach, then the gain
MonthBody(s, txs, phases, dur, reinvest, y, m) ==
  MonthEnd(AfterDeposits(s, txs, y, m, dur), PhaseRate(phases, y), reinvest)

\* the object results.push() appends after the twelve months of year y
YearResult(s, phases, reinvest, y) ==
  [year |-> y,
   balance |-> DRound(IF reinvest THEN s.currentBalance
                      ELSE DAdd(s.currentBalance, s.totalGains)),
   rate |-> PhaseRate(phases, y),
   deposits |-> DRound(s.yearDeposits),
   returns |-> DRound(s.yearReturns)]

locals == [currentBalance |-> currentBalance, totalGains |-> totalGains,
           yearDeposits |-> yearDeposits, yearReturns |-> yearReturns]

\* one pass of the month loop
CalcMonth ==
  /\ pc = "calc"
  /\ year <= durationYears
  /\ month <= 12
  /\ \E s \in {MonthBody(locals, transactions, yieldPhases, durationYears,
                          reinvestGains, year, month)} :
       /\ currentBalance' = s.currentBalance
       /\ totalGains' = s.totalGains
       /\ yearDeposits' = s.yearDeposits
       /\ yearReturns' = s.yearReturns
  /\ month' = month + 1
  /\ UNCHANGED <<config, localStorage, etfVars, pc, year, results, taxVars>>

\* results.push({...}) and the next pass of the year loop
CalcYearEnd ==
  /\ pc = "calc"
  /\ year <= durationYears
  /\ month > 12
  /\ results' = Append(results,
                       YearResult(locals, yieldPhases, reinvestGains, year))
  /\ year' = year + 1
  /\ month' = 1
  /\ yearDeposits' = DZero
  /\ yearReturns' = DZero
  /\ UNCHANGED <<config, localStorage, etfVars, pc, currentBalance,
               totalGains, taxVars>>

\* CalcReturn of a loop that runs while year < durationYears
CalcReturnEarly ==
  /\ pc = "calc"
  /\ year >= durationYears
  /\ pc' = "done"
  /\ UNCHANGED <<config, localStorage, etfVars, calcVars, taxVars>>

\* return results
CalcReturn ==
  /\ pc = "calc"
  /\ year > durationYears
  /\ pc' = "done"
  /\ UNCHANGED <<config, localStorage, etfVars, calcVars, taxVars>>

(***************************************************************************)
(* totalInvested                                                           *)
(***************************************************************************)
\* InvestedStep counting the years between startYear and effectiveEnd
\* without the + 1
InvestedStepExclusive(acc, t, dur) ==
  LET effectiveEnd == IF ~t.customDuration /\ t.type = "monthly"
                      THEN dur ELSE t.endYear
  IN  DAdd(acc, DMul(t.amount,
                     DInt(IF t.type = "monthly"
                          THEN (effectiveEnd - t.startYear) * 12
                          ELSE 1)))

\* the callback of transactions.reduce, on the accumulator acc
InvestedStep(acc, t, dur) ==
  LET effectiveEnd == IF ~t.customDuration /\ t.type = "monthly"
                      THEN dur ELSE t.endYear
  IN  DAdd(acc, DMul(t.amount,
                     DInt(IF t.type = "monthly"
                          THEN (effectiveEnd - t.startYear + 1) * 12
                          ELSE 1)))

RECURSIVE InvestedReduce(_, _, _)
InvestedReduce(txs, acc, dur) ==
  IF txs = <<>> THEN acc
  ELSE InvestedReduce(Tail(txs), InvestedStep(acc, Head(txs), dur), dur)

TotalInvested(capital, txs, dur) ==
  DAdd(capital, InvestedReduce(txs, DZero, dur))

(***************************************************************************)
(* taxInfo                                                                 *)
(***************************************************************************)
teilfreistellung == DDec(FALSE, 0, 30000000)
freibetrag == 1000
taxRate == DDec(FALSE, 0, 26375000)

\* x / inflationFactor, inflationFactor being
\* Math.pow(1.02, durationYears.value)
Deflate(x, dur) ==
  DDiv(x, IF dur \in 0..60 THEN Entry(PowInflation[dur + 1])
          ELSE MathPow(DDec(FALSE, 1, 2000000), DInt(dur)))

\* Math.round(v / inflationFactor) for an integer v
TodaysMoney(v, dur) == DRound(Deflate(DInt(v), dur))

\* floor(10 * |x| + 1/2) for a double x # 0, from the pair of 10 * hi and
\* 10 * lo
TenthsOf(x, h, l) ==
  FloorShift(h + l \div Pow2[27], l % Pow2[27], -x.exp)
    + BitAt(h + l \div Pow2[27], l % Pow2[27], -x.exp - 1)

\* the integer n for which n / 10 - x is closest to zero, the larger one
\* of two, for a double x >= 0: the digits of x.toFixed(1)
Tenths(x) == IF DIsZero(x) THEN 0 ELSE TenthsOf(x, 10 * x.hi, 10 * x.lo)

\* the tenths of tax / gains * 100 that toFixed(1) prints
RateTenths(tax, gains) == Tenths(DMul(DDiv(DInt(tax), gains), DInt(100)))

\* (t / 10).toFixed(1) for tenths t >= 0
ToFixed1(t) == ToString(t \div 10) \o "." \o ToString(t % 10)

\* the object taxInfo returns
TaxResult(balance, gains, tax, dur) ==
  LET afterTax == IntSub(balance, tax)
  IN  [gains |-> gains,
       tax |-> tax,
       afterTax |-> afterTax,
       inTodaysMoney |-> TodaysMoney(IF tax # NaNInt /\ tax > 0
                                     THEN afterTax ELSE balance,
                                     dur),
       effectiveRate |-> IF DLess(DZero, gains)
                         THEN ToFixed1(RateTenths(tax, gains))
                         ELSE "0.0"]

\* TaxOnGains without the Teilfreistellung: all gains are taxable
TaxOnGainsNoExemption(balance, gains, dur) ==
  LET taxableAfterFreibetrag ==
        DMax(DZero, DSub(gains, DInt(freibetrag)))
      tax == DRound(DMul(taxableAfterFreibetrag, taxRate))
  IN  TaxResult(balance, gains, tax, dur)

\* TaxOnGains without the Freibetrag: the taxable gains are taxed from the
\* first euro
TaxOnGainsNoAllowance(balance, gains, dur) ==
  LET taxableGains == DMul(gains, DSub(DInt(1), teilfreistellung))
      tax == DRound(DMul(DMax(DZero, taxableGains), taxRate))
  IN  TaxResult(balance, gains, tax, dur)

\* taxInfo from the gains on
TaxOnGains(balance, gains, dur) ==
  LET taxableGains == DMul(gains, DSub(DInt(1), teilfreistellung))
      taxableAfterFreibetrag ==
        DMax(DZero, DSub(taxableGains, DInt(freibetrag)))
      tax == DRound(DMul(taxableAfterFreibetrag, taxRate))
  IN  TaxResult(balance, gains, tax, dur)

\* TaxInfo without Math.max on the gains
TaxInfoNoClamp(balance, invested, dur) ==
  TaxOnGains(balance, DSub(DInt(balance), invested), dur)

TaxInfo(balance, invested, dur) ==
  TaxOnGains(balance, DMax(DZero, DSub(DInt(balance), invested)), dur)

\* the value of taxInfo before it is evaluated
NoTaxInfo ==
  [gains |-> DZero, tax |-> 0, afterTax |-> 0, inTodaysMoney |-> 0,
   effectiveRate |-> ""]

\* const finalBalance = calculateData.value[calculateData.value.length - 1]
\*                        .balance
ReadFinalBalance ==
  /\ pc = "done"
  /\ finalBalance' = results[Len(results)].balance
  /\ pc' = "invested"
  /\ UNCHANGED <<config, localStorage, etfVars, calcVars, totalInvested, taxInfo>>

\* totalInvested.value, evaluated when taxInfo reads it
EvalTotalInvested ==
  /\ pc = "invested"
  /\ totalInvested' = TotalInvested(initialCapital, transactions,
                                    durationYears)
  /\ pc' = "tax"
  /\ UNCHANGED <<config, localStorage, etfVars, calcVars, finalBalance, taxInfo>>

\* the rest of taxInfo
EvalTaxInfo ==
  /\ pc = "tax"
  /\ taxInfo' = TaxInfo(finalBalance, totalInvested, durationYears)
  /\ pc' = "end"
  /\ UNCHANGED <<config, localStorage, etfVars, calcVars, finalBalance,
               totalInvested>>

(***************************************************************************)
(* etfBenchmarks.  A returns table maps a year to the return in tenths of  *)
(* a percent; null is the empty tuple and a value v the tuple <<v>>.       *)
(***************************************************************************)
etfData ==
  << [ticker |-> "IUSA", inception |-> 2002,
      returns |->
        2003 :> 51 @@ 2004 :> 36 @@ 2005 :> 252 @@ 2006 :> 33 @@ 2007 :> -57
        @@ 2008 :> -384 @@ 2009 :> 234 @@ 2010 :> 223 @@ 2011 :> 42
        @@ 2012 :> 143 @@ 2013 :> 274 @@ 2014 :> 287 @@ 2015 :> 122
        @@ 2016 :> 144 @@ 2017 :> 64 @@ 2018 :> 0 @@ 2019 :> 338
        @@ 2020 :> 85 @@ 2021 :> 379 @@ 2022 :> -133 @@ 2023 :> 216
        @@ 2024 :> 326 @@ 2025 :> 40],
     [ticker |-> "IQQW", inception |-> 2005,
      returns |->
        2006 :> 74 @@ 2007 :> -17 @@ 2008 :> -376 @@ 2009 :> 260
        @@ 2010 :> 195 @@ 2011 :> -24 @@ 2012 :> 140 @@ 2013 :> 212
        @@ 2014 :> 195 @@ 2015 :> 104 @@ 2016 :> 107 @@ 2017 :> 75
        @@ 2018 :> -41 @@ 2019 :> 300 @@ 2020 :> 63 @@ 2021 :> 311
        @@ 2022 :> -132 @@ 2023 :> 192 @@ 2024 :> 259 @@ 2025 :> 68],
     [ticker |-> "SPYI", inception |-> 2011,
      returns |->
        2012 :> 141 @@ 2013 :> 175 @@ 2014 :> 186 @@ 2015 :> 88
        @@ 2016 :> 114 @@ 2017 :> 89 @@ 2018 :> -49 @@ 2019 :> 289
        @@ 2020 :> 67 @@ 2021 :> 288 @@ 2022 :> -124 @@ 2023 :> 169
        @@ 2024 :> 235 @@ 2025 :> 81] >>

etfEndYear == 2025

\* startYear of a window that begins one year earlier
EtfStartYearEarly(dur) == etfEndYear - dur

\* startYear of the window
EtfStartYear(dur) == etfEndYear - dur + 1

One == FromInt(1)

Null == <<>>
Some(v) == <<v>>

\* 1 + r / 100 for a return of t tenths of a percent, -1000 < t
GrowthFactor(t) ==
  IF t >= 0 THEN Factor(FALSE, 1 + t \div 1000, (t % 1000) * 100000, 0)
  ELSE Factor(FALSE, 0, (1000 + t) * 100000, 0)

\* 1 + k / 2000 for an integer -2000 < k: the bound between two tenths of
\* a percent
HalfTenth(k) ==
  IF k >= 0 THEN Factor(FALSE, 1 + k \div 2000, (k % 2000) * 50000, 0)
  ELSE Factor(FALSE, 0, (2000 + k) * 50000, 0)

\* b^n for a factor b
RECURSIVE PowNum(_, _)
PowNum(b, n) == IF n = 0 THEN One ELSE Mul(PowNum(b, n - 1), b)

\* whether |Math.pow(cum, 1 / n) - 1| * 1000 >= t - 1/2, the sign of the
\* difference being neg
CagrFits(cum, n, neg, t) ==
  IF neg THEN ~Less(PowNum(HalfTenth(1 - 2 * t), n), cum)
  ELSE ~Less(cum, PowNum(HalfTenth(2 * t - 1), n))

\* the highest t in lo..hi-1 with CagrFits, which holds at lo and not at hi
RECURSIVE CagrTenths(_, _, _, _, _)
CagrTenths(cum, n, neg, lo, hi) ==
  IF hi = lo + 1 THEN lo
  ELSE IF CagrFits(cum, n, neg, (lo + hi) \div 2)
       THEN CagrTenths(cum, n, neg, (lo + hi) \div 2, hi)
       ELSE CagrTenths(cum, n, neg, lo, (lo + hi) \div 2)

\* ((Math.pow(cumulative, 1 / n) - 1) * 100).toFixed(1)
CagrFixed1(cum, n) ==
  (IF Less(cum, One) THEN "-" ELSE "")
    \o ToFixed1(CagrTenths(cum, n, Less(cum, One), 0, 1001))

\* x.toFixed(0)
ToFixed0(x) ==
  IF x.hi < 0 THEN "-" \o ToString(MathRound(Neg(x)))
  ELSE ToString(MathRound(x))

\* the object the callback of etfData.map returns
BenchmarkResult(etf, cum, ys, dur) ==
  [ticker |-> etf.ticker,
   inception |-> etf.inception,
   cagr |-> IF Len(ys) > 0 THEN Some(CagrFixed1(cum, Len(ys))) ELSE Null,
   totalReturn |-> ToFixed0(MulInt(Sub(cum, One), 100)),
   yearsAvailable |-> Len(ys),
   yearsRequested |-> dur,
   fromYear |-> IF Len(ys) > 0 THEN Some(ys[1]) ELSE Null,
   toYear |-> IF Len(ys) > 0 THEN Some(ys[Len(ys)]) ELSE Null]

\* EtfYear counting a year without a return as a year of 0%
EtfYearAbsentAsZero ==
  /\ pc = "etf"
  /\ etfIndex <= Len(etfData)
  /\ etfYear <= etfEndYear
  /\ cumulative' =
       IF etfYear \in DOMAIN etfData[etfIndex].returns
       THEN Mul(cumulative, GrowthFactor(etfData[etfIndex].returns[etfYear]))
       ELSE cumulative
  /\ years' = Append(years, etfYear)
  /\ etfYear' = etfYear + 1
  /\ UNCHANGED <<config, localStorage, calcVars, taxVars, pc, etfIndex,
               etfBenchmarks>>

\* one pass of the loop over the years of the window
EtfYear ==
  /\ pc = "etf"
  /\ etfIndex <= Len(etfData)
  /\ etfYear <= etfEndYear
  /\ IF etfYear \in DOMAIN etfData[etfIndex].returns
     THEN /\ cumulative' =
               Mul(cumulative,
                   GrowthFactor(etfData[etfIndex].returns[etfYear]))
          /\ years' = Append(years, etfYear)
     ELSE UNCHANGED <<cumulative, years>>
  /\ etfYear' = etfYear + 1
  /\ UNCHANGED <<config, localStorage, calcVars, taxVars, pc, etfIndex,
               etfBenchmarks>>

\* the return of the callback, and the entry of the callback on the next
\* element
EtfResult ==
  /\ pc = "etf"
  /\ etfIndex <= Len(etfData)
  /\ etfYear > etfEndYear
  /\ etfBenchmarks' =
       Append(etfBenchmarks,
              BenchmarkResult(etfData[etfIndex], cumulative, years,
                              durationYears))
  /\ etfIndex' = etfIndex + 1
  /\ etfYear' = EtfStartYear(durationYears)
  /\ cumulative' = One
  /\ years' = <<>>
  /\ UNCHANGED <<config, localStorage, calcVars, taxVars, pc>>

\* the return of etfData.map
EtfReturn ==
  /\ pc = "etf"
  /\ etfIndex > Len(etfData)
  /\ pc' = "etfdone"
  /\ UNCHANGED <<config, localStorage, calcVars, taxVars, etfVars>>

(***************************************************************************)
(* Persistence.  The item 'investment_sim_v1' of localStorage is Null or   *)
(* Some(data), data the object that saveToLocal stringified:               *)
(* JSON.parse(JSON.stringify(data)) is data for an object of finite        *)
(* numbers, booleans, strings and arrays of such objects.  An object is a  *)
(* record; a property that is undefined is a field the record lacks.       *)
(***************************************************************************)
\* the object data of saveToLocal
Snapshot(capital, dur, reinvest, phases, txs) ==
  [initialCapital |-> capital, durationYears |-> dur,
   reinvestGains |-> reinvest, yieldPhases |-> phases, transactions |-> txs]

\* the item after saveToLocal ran on the refs
Saved(capital, dur, reinvest, phases, txs) ==
  Some(Snapshot(capital, dur, reinvest, phases, txs))

\* the sequence f[1], ..., f[n]
RECURSIVE ListOf(_, _)
ListOf(f, n) == IF n = 0 THEN <<>> ELSE Append(ListOf(f, n - 1), f[n])

\* the callback of parsed.yieldPhases.map
LoadPhase(p) ==
  IF "customDuration" \in DOMAIN p THEN p
  ELSE [f \in DOMAIN p \cup {"customDuration"} |->
          IF f = "customDuration" THEN FALSE ELSE p[f]]

\* the callback of parsed.transactions.map: a transaction of the old
\* format has a duration and no endYear
LoadTransaction(t) ==
  IF "duration" \in DOMAIN t /\ "endYear" \notin DOMAIN t
  THEN [f \in (DOMAIN t \ {"duration"}) \cup {"endYear", "customDuration"} |->
          CASE f = "endYear" -> t.startYear + t.duration - 1
            [] f = "customDuration" -> TRUE
            [] OTHER -> t[f]]
  ELSE IF "customDuration" \in DOMAIN t THEN t
  ELSE [f \in DOMAIN t \cup {"customDuration"} |->
          IF f = "customDuration" THEN FALSE ELSE t[f]]

\* the refs, as a snapshot, after loadFromLocal ran on the refs now and on
\* the item
LoadFromLocal(now, item) ==
  IF item = Null THEN now
  ELSE Snapshot(item[1].initialCapital,
                item[1].durationYears,
                IF "reinvestGains" \in DOMAIN item[1]
                THEN item[1].reinvestGains ELSE now.reinvestGains,
                ListOf([i \in 1..Len(item[1].yieldPhases) |->
                          LoadPhase(item[1].yieldPhases[i])],
                       Len(item[1].yieldPhases)),
                ListOf([i \in 1..Len(item[1].transactions) |->
                          LoadTransaction(item[1].transactions[i])],
                       Len(item[1].transactions)))

(***************************************************************************)
(* watch(durationYears): auto-extend when the duration increases.          *)
(***************************************************************************)
\* the callback of yieldPhases.value.forEach
ExtendPhase(p, newVal, oldVal) ==
  IF ~p.customDuration THEN [p EXCEPT !.startYear = 1, !.endYear = newVal]
  ELSE IF p.endYear = oldVal THEN [p EXCEPT !.endYear = newVal]
  ELSE p

\* the callback of transactions.value.forEach
ExtendTransaction(t, newVal, oldVal) ==
  IF t.type = "monthly" /\ ~t.customDuration
  THEN [t EXCEPT !.endYear = newVal]
  ELSE IF t.type = "monthly" /\ t.endYear = oldVal
  THEN [t EXCEPT !.endYear = newVal]
  ELSE t

\* WatchPhases of a watcher that runs on every change of the duration
WatchPhasesAnyChange(phases, newVal, oldVal) ==
  IF newVal # oldVal
  THEN ListOf([i \in 1..Len(phases) |->
                 ExtendPhase(phases[i], newVal, oldVal)], Len(phases))
  ELSE phases

\* yieldPhases after the watcher ran on the change from oldVal to newVal
WatchPhases(phases, newVal, oldVal) ==
  IF newVal > oldVal
  THEN ListOf([i \in 1..Len(phases) |->
                 ExtendPhase(phases[i], newVal, oldVal)], Len(phases))
  ELSE phases

\* transactions after the watcher ran on the change from oldVal to newVal
WatchTransactions(txs, newVal, oldVal) ==
  IF newVal > oldVal
  THEN ListOf([i \in 1..Len(txs) |->
                 ExtendTransaction(txs[i], newVal, oldVal)], Len(txs))
  ELSE txs

(***************************************************************************)
(* The configurations calculateData is evaluated on.                       *)
(***************************************************************************)
MaxYears == 3
MaxPhases == 2
MaxTx == 2

Years == 1..MaxYears

Phase(id, startYear, endYear, rate, customDuration) ==
  [id |-> id, startYear |-> startYear, endYear |-> endYear, rate |-> rate,
   customDuration |-> customDuration]

Transaction(id, amount, type, startYear, endYear, customDuration) ==
  [id |-> id, amount |-> amount, type |-> type, startYear |-> startYear,
   endYear |-> endYear, customDuration |-> customDuration]

\* the state of lines 528-532
DefaultCapital == DInt(30000)
DefaultDuration == 15
DefaultRate == 6
DefaultAmount == DInt(500)
DefaultPhases(dur) == <<Phase(1, 1, dur, DefaultRate, FALSE)>>
DefaultTransactions(dur) ==
  <<Transaction(1, DefaultAmount, "monthly", 1, dur, FALSE)>>

\* the rate of the i-th phase of a list: the phases of a list differ in rate
RateAt(i) == CASE i = 1 -> 6 [] i = 2 -> -50 [] OTHER -> 5

\* the year ranges of the i-th phase of a list: every range for the first
\* two, inverted ones included, and one range for a later phase
PhaseRanges(i) ==
  IF i <= 2 THEN Years \X Years
  ELSE {<<2, MaxYears>>}

\* the lists of up to MaxPhases phases; a phase that spans 1..dur is not
\* custom
PhaseLists(dur) ==
  UNION { { ListOf([i \in 1..n |->
                      Phase(i, f[i][1], f[i][2], RateAt(i),
                            ~(f[i][1] = 1 /\ f[i][2] = dur))], n)
            : f \in { g \in [1..n -> Years \X Years] :
                        \A i \in 1..n : g[i] \in PhaseRanges(i) } }
          : n \in 0..MaxPhases }

\* the amount of the i-th transaction of a list: 500, -2.5, 1000.25
AmountAt(i) ==
  CASE i = 1 -> DInt(500)
    [] i = 2 -> DDec(TRUE, 2, 50000000)
    [] OTHER -> DDec(FALSE, 1000, 25000000)

\* <<type, customDuration, startYear, endYear>> of the i-th transaction of
\* a list: every shape for the first, a few for the later ones
TxShapes(i) ==
  CASE i = 1 -> {"monthly", "once"} \X BOOLEAN \X Years \X Years
    [] i = 2 -> {<<"monthly", FALSE, 1, 1>>, <<"monthly", TRUE, 2, MaxYears>>,
                 <<"once", FALSE, 1, 1>>, <<"once", TRUE, MaxYears, 1>>}
    [] OTHER -> {<<"monthly", TRUE, 1, 2>>}

TxLists ==
  UNION { { ListOf([i \in 1..n |->
                      Transaction(i, AmountAt(i), f[i][1], f[i][3], f[i][4],
                                  f[i][2])], n)
            : f \in { g \in [1..n -> TxShapes(1)] :
                        \A i \in 1..n : g[i] \in TxShapes(i) } }
          : n \in 0..MaxTx }

\* the locals of calculateData at its entry
EntryCalc ==
  /\ year = 1
  /\ month = 1
  /\ currentBalance = initialCapital
  /\ totalGains = DZero
  /\ yearDeposits = DZero
  /\ yearReturns = DZero
  /\ results = <<>>

\* the locals of etfBenchmarks at its entry
EntryEtf ==
  /\ etfIndex = 1
  /\ etfYear = EtfStartYear(durationYears)
  /\ cumulative = One
  /\ years = <<>>
  /\ etfBenchmarks = <<>>

\* the watcher of line 562 has saved the refs
Stored ==
  localStorage = Saved(initialCapital, durationYears, reinvestGains,
                       yieldPhases, transactions)

\* the entry of an evaluation of calculateData; totalInvested and taxInfo
\* are not evaluated yet
InitCalc ==
  /\ pc = "calc"
  /\ EntryCalc
  /\ finalBalance = 0
  /\ totalInvested = DZero
  /\ taxInfo = NoTaxInfo
  /\ EntryEtf
  /\ Stored

\* the phases vary
InitPhases ==
  /\ initialCapital = DInt(1000)
  /\ durationYears \in Years
  /\ reinvestGains = TRUE
  /\ yieldPhases \in PhaseLists(durationYears)
  /\ transactions = DefaultTransactions(durationYears)

\* the transactions vary
InitTransactions ==
  /\ initialCapital = DInt(1000)
  /\ durationYears \in Years
  /\ reinvestGains \in BOOLEAN
  /\ yieldPhases = DefaultPhases(durationYears)
  /\ transactions \in TxLists

\* the state the component is constructed in
InitDefault ==
  /\ initialCapital = DefaultCapital
  /\ durationYears = DefaultDuration
  /\ reinvestGains = TRUE
  /\ yieldPhases = DefaultPhases(DefaultDuration)
  /\ transactions = DefaultTransactions(DefaultDuration)

\* a phase and a transaction with inverted year ranges next to the
\* regular ones
InitInverted ==
  /\ initialCapital = DInt(1000)
  /\ durationYears \in Years
  /\ reinvestGains \in BOOLEAN
  /\ yieldPhases = <<Phase(1, 1, durationYears, DefaultRate, FALSE),
                     Phase(2, MaxYears, 1, -50, TRUE)>>
  /\ transactions = <<Transaction(1, DefaultAmount, "monthly", 1,
                                  durationYears, FALSE),
                      Transaction(2, DInt(100), "monthly", 2, 1, TRUE)>>

Init ==
  (InitPhases \/ InitTransactions \/ InitDefault \/ InitInverted) /\ InitCalc

Next == CalcMonth \/ CalcYearEnd \/ CalcReturn \/ ReadFinalBalance
        \/ EvalTotalInvested \/ EvalTaxInfo

Spec == Init /\ [][Next]_vars

(***************************************************************************)
(* taxInfo on the final balances and invested sums it can be given.        *)
(***************************************************************************)
MaxBalanceSteps == 8
MaxInvestedSteps == 40

\* final balances: whole numbers, as Math.round gives them
TaxBalances == {25000 + 2500 * i : i \in 0..MaxBalanceSteps}

\* invested sums: whole numbers and numbers with a fraction, from 0 on, so
\* that the gains reach 42000, where (gains * 0.70 - 1000) * 0.26375 is
\* 7490.5 and the product of the doubles is below it
TaxInvested ==
  {DDec(FALSE, 1000 * j, frac) :
     j \in 0..MaxInvestedSteps, frac \in {0, 25000000}}

\* taxInfo has read finalBalance and totalInvested
InitTax ==
  /\ initialCapital = DefaultCapital
  /\ durationYears \in {1, DefaultDuration}
  /\ reinvestGains = TRUE
  /\ yieldPhases = DefaultPhases(DefaultDuration)
  /\ transactions = DefaultTransactions(DefaultDuration)
  /\ pc = "tax"
  /\ EntryCalc
  /\ finalBalance \in TaxBalances
  /\ totalInvested \in TaxInvested
  /\ taxInfo = NoTaxInfo
  /\ EntryEtf
  /\ Stored

NextTax == EvalTaxInfo

SpecTax == InitTax /\ [][NextTax]_vars

(***************************************************************************)
(* etfBenchmarks on every duration up to MaxDuration.                      *)
(***************************************************************************)
MaxDuration == 30

InitEtf ==
  /\ initialCapital = DefaultCapital
  /\ durationYears \in 1..MaxDuration
  /\ reinvestGains = TRUE
  /\ yieldPhases = DefaultPhases(DefaultDuration)
  /\ transactions = DefaultTransactions(DefaultDuration)
  /\ pc = "etf"
  /\ EntryCalc
  /\ finalBalance = 0
  /\ totalInvested = DZero
  /\ taxInfo = NoTaxInfo
  /\ EntryEtf
  /\ Stored

NextEtf == EtfYear \/ EtfResult \/ EtfReturn

SpecEtf == InitEtf /\ [][NextEtf]_vars

(***************************************************************************)
(* The editor: the events of the template, each with the watchers it       *)
(* triggers.  pc is "mount" before onMounted ran and "idle" between two    *)
(* events.                                                                 *)
(***************************************************************************)
MaxSlide == 1
MaxClock == 2

\* the positions of the duration slider the model moves it to
Slider == (DefaultDuration - MaxSlide)..(DefaultDuration + MaxSlide)

\* the readings of Date.now() when an item is pushed: any time of the
\* clock, the id of an item of the list included (two pushes in one
\* millisecond, a clock that was set back, a stored item of a later id)
DateNow == 1..MaxClock

\* toggleCustomDuration with the reset of startYear and endYear made in
\* both cases
ToggleCustomDurationResetAlways(item, dur) ==
  [item EXCEPT !.customDuration = ~item.customDuration, !.startYear = 1,
               !.endYear = dur]

\* toggleCustomDuration(item)
ToggleCustomDuration(item, dur) ==
  IF item.customDuration
  THEN [item EXCEPT !.customDuration = FALSE, !.startYear = 1,
                    !.endYear = dur]
  ELSE [item EXCEPT !.customDuration = TRUE]

\* the refs an event assigns, and saveToLocal by the watcher of line 562
Edit(dur, phases, txs) ==
  /\ durationYears' = dur
  /\ yieldPhases' = phases
  /\ transactions' = txs
  /\ localStorage' = Saved(initialCapital, dur, reinvestGains, phases, txs)
  /\ UNCHANGED <<initialCapital, reinvestGains, pc, calcVars, taxVars,
                 etfVars>>

\* the duration slider is moved to a position of range, and the watcher of
\* durationYears runs
SetDuration(range) ==
  /\ pc = "idle"
  /\ \E newVal \in range \ {durationYears} :
       Edit(newVal,
            WatchPhases(yieldPhases, newVal, durationYears),
            WatchTransactions(transactions, newVal, durationYears))

\* AddPhase with unshift in place of push: the new phase comes first
AddPhaseFirst ==
  /\ pc = "idle"
  /\ Len(yieldPhases) < MaxPhases
  /\ \E now \in DateNow :
       Edit(durationYears,
            <<Phase(now, 1, durationYears, 5, FALSE)>> \o yieldPhases,
            transactions)

AddPhase ==
  /\ pc = "idle"
  /\ Len(yieldPhases) < MaxPhases
  /\ \E now \in DateNow :
       Edit(durationYears,
            Append(yieldPhases, Phase(now, 1, durationYears, 5, FALSE)),
            transactions)

RemovePhase ==
  /\ pc = "idle"
  /\ \E i \in 1..Len(yieldPhases) :
       Edit(durationYears,
            SelectSeq(yieldPhases, LAMBDA p : p.id # yieldPhases[i].id),
            transactions)

\* toggleCustomDuration(p), by either button of a phase
TogglePhase ==
  /\ pc = "idle"
  /\ \E i \in 1..Len(yieldPhases) :
       Edit(durationYears,
            [yieldPhases EXCEPT
               ![i] = ToggleCustomDuration(@, durationYears)],
            transactions)

AddTransaction ==
  /\ pc = "idle"
  /\ Len(transactions) < MaxTx
  /\ \E now \in DateNow :
       Edit(durationYears, yieldPhases,
            Append(transactions,
                   Transaction(now, DefaultAmount, "monthly", 1,
                               durationYears, FALSE)))

RemoveTransaction ==
  /\ pc = "idle"
  /\ \E i \in 1..Len(transactions) :
       Edit(durationYears, yieldPhases,
            SelectSeq(transactions, LAMBDA t : t.id # transactions[i].id))

\* toggleCustomDuration(t), by either button of a transaction: the
\* template shows them for a monthly transaction
ToggleTransaction ==
  /\ pc = "idle"
  /\ \E i \in 1..Len(transactions) :
       /\ transactions[i].type = "monthly"
       /\ Edit(durationYears, yieldPhases,
               [transactions EXCEPT
                  ![i] = ToggleCustomDuration(@, durationYears)])

\* the select of a transaction is set to the other type
SetType ==
  /\ pc = "idle"
  /\ \E i \in 1..Len(transactions) :
       \E type \in {"monthly", "once"} \ {transactions[i].type} :
         Edit(durationYears, yieldPhases,
              [transactions EXCEPT ![i].type = type])

\* the page is loaded anew: the refs are constructed, localStorage stays
Restart ==
  /\ pc = "idle"
  /\ initialCapital' = DefaultCapital
  /\ durationYears' = DefaultDuration
  /\ reinvestGains' = TRUE
  /\ yieldPhases' = DefaultPhases(DefaultDuration)
  /\ transactions' = DefaultTransactions(DefaultDuration)
  /\ pc' = "mount"
  /\ UNCHANGED <<localStorage, calcVars, taxVars, etfVars>>

\* onMounted: loadFromLocal, then the watchers it triggered: the one of
\* durationYears with the constructed duration as oldVal, and saveToLocal
OnMounted ==
  /\ pc = "mount"
  /\ \E l \in {LoadFromLocal(Snapshot(initialCapital, durationYears,
                                      reinvestGains, yieldPhases,
                                      transactions), localStorage)} :
       /\ initialCapital' = l.initialCapital
       /\ durationYears' = l.durationYears
       /\ reinvestGains' = l.reinvestGains
       /\ yieldPhases' = WatchPhases(l.yieldPhases, l.durationYears,
                                     durationYears)
       /\ transactions' = WatchTransactions(l.transactions, l.durationYears,
                                            durationYears)
  /\ localStorage' = IF localStorage = Null THEN Null
                     ELSE Saved(initialCapital', durationYears',
                                reinvestGains', yieldPhases', transactions')
  /\ pc' = "idle"
  /\ UNCHANGED <<calcVars, taxVars, etfVars>>

\* the template reads calculateData: its evaluation starts
Render ==
  /\ pc = "idle"
  /\ pc' = "calc"
  /\ year' = 1
  /\ month' = 1
  /\ currentBalance' = initialCapital
  /\ totalGains' = DZero
  /\ yearDeposits' = DZero
  /\ yearReturns' = DZero
  /\ results' = <<>>
  /\ UNCHANGED <<config, localStorage, taxVars, etfVars>>

\* an item an earlier version of the program stored: no reinvestGains, a
\* phase without customDuration, a transaction with a duration
OldItem ==
  Some([initialCapital |-> DefaultCapital,
        durationYears |-> DefaultDuration + 1,
        yieldPhases |-> <<[id |-> 1, startYear |-> 1,
                           endYear |-> DefaultDuration, rate |-> DefaultRate]>>,
        transactions |-> <<[id |-> 1, amount |-> DefaultAmount,
                            type |-> "monthly", startYear |-> 2,
                            duration |-> DefaultDuration - 1]>>])

\* the component is constructed; localStorage holds nothing or an old item
InitEdit ==
  /\ initialCapital = DefaultCapital
  /\ durationYears = DefaultDuration
  /\ reinvestGains = TRUE
  /\ yieldPhases = DefaultPhases(DefaultDuration)
  /\ transactions = DefaultTransactions(DefaultDuration)
  /\ localStorage \in {Null, OldItem}
  /\ pc = "mount"
  /\ EntryCalc
  /\ finalBalance = 0
  /\ totalInvested = DZero
  /\ taxInfo = NoTaxInfo
  /\ EntryEtf

NextEdit ==
  \/ OnMounted \/ Restart \/ SetDuration(Slider)
  \/ AddPhase \/ RemovePhase \/ TogglePhase
  \/ ToggleTransaction \/ SetType

SpecEdit == InitEdit /\ [][NextEdit]_vars

(***************************************************************************)
(* The deposits: the editor on the transactions with the slider at a low   *)
(* position, and the computed properties on what it leaves.                *)
(***************************************************************************)
\* the slider was moved down from the constructed state, which changes no
\* phase and no transaction
InitInvested ==
  /\ initialCapital = DefaultCapital
  /\ durationYears \in Years
  /\ reinvestGains = TRUE
  /\ yieldPhases = DefaultPhases(DefaultDuration)
  /\ transactions = DefaultTransactions(DefaultDuration)
  /\ pc = "idle"
  /\ EntryCalc
  /\ finalBalance = 0
  /\ totalInvested = DZero
  /\ taxInfo = NoTaxInfo
  /\ EntryEtf
  /\ Stored

NextInvested ==
  \/ SetDuration(Years) \/ AddTransaction \/ RemoveTransaction
  \/ ToggleTransaction \/ SetType \/ Render \/ Next

SpecInvested == InitInvested /\ [][NextInvested]_vars

(***************************************************************************)
(* calculateData, totalInvested and taxInfo on refs that loadFromLocal     *)
(* assigned from an item without looking at its values: a rate below -100  *)
(* and a transaction type that is neither 'monthly' nor 'once'.            *)
(***************************************************************************)
\* the rates of the phases of such an item
UncheckedRates == {-150, DefaultRate}

\* the types of the transactions of such an item
UncheckedTypes == {"monthly", "once", "yearly"}

InitUnchecked ==
  /\ initialCapital = DInt(1000)
  /\ durationYears \in Years
  /\ reinvestGains \in BOOLEAN
  /\ \E r1, r2 \in UncheckedRates :
       yieldPhases = <<Phase(1, 1, durationYears, r1, FALSE),
                       Phase(2, 2, MaxYears, r2, TRUE)>>
  /\ \E type \in UncheckedTypes, start \in Years :
       transactions = <<Transaction(1, DefaultAmount, "monthly", 1,
                                    durationYears, FALSE),
                        Transaction(2, DInt(100), type, start, MaxYears,
                                    TRUE)>>
  /\ InitCalc

SpecUnchecked == InitUnchecked /\ [][Next]_vars

(***************************************************************************)
(* The claims on calculateData and totalInvested, checked under Spec.      *)
(* The Claimed... operators state what the specification says, apart from  *)
(* the operators above that are translated from the code.                  *)
(***************************************************************************)
\* the rate of the last phase in list order that covers year y, else 0
ClaimedRate(phases, y) ==
  LET covering == {i \in 1..Len(phases) :
                     phases[i].startYear <= y /\ y <= phases[i].endYear}
  IN  IF covering = {} THEN 0
      ELSE phases[CHOOSE i \in covering : \A j \in covering : j <= i].rate

\* C1: the rate recorded for a year is the rate of the last phase, in list
\* order, whose range covers the year, and 0 when no phase covers it; every
\* year 1..durationYears has its record once the evaluation has returned.
C1_RateResolution ==
  /\ \A k \in 1..Len(results) :
       results[k].rate = ClaimedRate(yieldPhases, results[k].year)
  /\ pc # "calc" =>
       \A y \in 1..durationYears :
         \E k \in 1..Len(results) : results[k].year = y

\* two phases of different rates cover a year and the later one gave the rate
C1_Witness ==
  /\ pc = "done"
  /\ \E y \in 1..durationYears, i, j \in 1..Len(yieldPhases) :
       /\ i < j
       /\ yieldPhases[i].startYear <= y /\ y <= yieldPhases[i].endYear
       /\ yieldPhases[j].startYear <= y /\ y <= yieldPhases[j].endYear
       /\ yieldPhases[i].rate # yieldPhases[j].rate
       /\ results[y].rate = yieldPhases[j].rate

\* the effective end year the specification gives a transaction
ClaimedEnd(t, dur) ==
  IF t.type = "monthly" /\ ~t.customDuration THEN dur ELSE t.endYear

\* whether the specification has transaction t applied in year y
ClaimedActive(t, y, dur) ==
  IF t.type = "monthly"
  THEN t.startYear <= y /\ y <= ClaimedEnd(t, dur)
  ELSE t.type = "once" /\ y = t.startYear

\* how often t is added in the first k months of year y
ClaimedTimes(t, y, k, dur) ==
  IF ~ClaimedActive(t, y, dur) THEN 0
  ELSE IF t.type = "monthly" THEN k
  ELSE IF k >= 1 THEN 1 ELSE 0

\* n times x
DTimes(x, n) == DMul(x, DInt(n))

\* |x|
DAbs(x) == IF DIsNaN(x) \/ ~x.neg THEN x ELSE DNeg(x)

\* a millionth
Tolerance == DDiv(DInt(1), DInt(1000000))

\* x = y up to the rounding of the additions and multiplications that
\* x and y are the results of
Close(x, y) == DLess(DAbs(DSub(x, y)), Tolerance)

\* the sum of the amounts added in the first k months of year y; the
\* amounts of the configurations are multiples of 1/4, whose sums and
\* multiples are exact
RECURSIVE ClaimedYearSum(_, _, _, _)
ClaimedYearSum(txs, y, k, dur) ==
  IF txs = <<>> THEN DZero
  ELSE DAdd(DTimes(Head(txs).amount, ClaimedTimes(Head(txs), y, k, dur)),
           ClaimedYearSum(Tail(txs), y, k, dur))

\* C2: at the end of a year the deposits of the year are the amounts of the
\* transactions active in it: a monthly one twelve times when
\* startYear <= year <= effective end (durationYears unless customDuration,
\* then endYear), a once one a single time when year = startYear, whatever
\* its endYear and customDuration.
C2_TransactionActivity ==
  (pc = "calc" /\ month > 12) =>
    yearDeposits = ClaimedYearSum(transactions, year, 12, durationYears)

\* a year ended in which a non-custom monthly transaction with an endYear
\* before the year and a once transaction in its startYear were applied
C2_Witness ==
  /\ pc = "calc" /\ month > 12
  /\ \E i, j \in 1..Len(transactions) :
       /\ transactions[i].type = "monthly"
       /\ ~transactions[i].customDuration
       /\ transactions[i].endYear < year
       /\ transactions[i].startYear <= year
       /\ transactions[j].type = "once"
       /\ transactions[j].startYear = year
       /\ transactions[j].endYear # year
  /\ yearDeposits # DZero

\* C3: the records are those of the years 1, 2, ... in ascending order with
\* no gap and no repetition, durationYears of them once the evaluation has
\* returned.
C3_YearsContiguous ==
  /\ \A k \in 1..Len(results) : results[k].year = k
  /\ pc # "calc" => Len(results) = durationYears

\* the evaluation of the default state returned its fifteen records
C3_Witness ==
  /\ pc = "done"
  /\ durationYears = DefaultDuration
  /\ Len(results) = DefaultDuration
  /\ results[DefaultDuration].year = DefaultDuration

\* the sum of the amounts of the monthly (once) transactions active in y
RECURSIVE ClaimedTypeSum(_, _, _, _)
ClaimedTypeSum(txs, type, y, dur) ==
  IF txs = <<>> THEN DZero
  ELSE DAdd(IF Head(txs).type = type /\ ClaimedActive(Head(txs), y, dur)
           THEN Head(txs).amount ELSE DZero,
           ClaimedTypeSum(Tail(txs), type, y, dur))

\* C4: in every month of a year each active monthly transaction adds its
\* amount, and each once transaction of that startYear adds its amount in
\* month 1 only; the deposits recorded for the year are
\* round(12 * monthly amounts + once amounts), negative amounts included.
C4_DepositsPerYear ==
  /\ pc = "calc" =>
       yearDeposits =
         DAdd(DTimes(ClaimedTypeSum(transactions, "monthly", year,
                                   durationYears), month - 1),
             IF month >= 2
             THEN ClaimedTypeSum(transactions, "once", year, durationYears)
             ELSE DZero)
  /\ \A k \in 1..Len(results) :
       results[k].deposits =
         DRound(DAdd(DTimes(ClaimedTypeSum(transactions, "monthly", k,
                                             durationYears), 12),
                       ClaimedTypeSum(transactions, "once", k,
                                      durationYears)))

\* a year was recorded whose deposits are a monthly and a negative once
\* amount, rounded
C4_Witness ==
  /\ Len(results) >= 1
  /\ \E i, j \in 1..Len(transactions) :
       /\ transactions[i].type = "monthly"
       /\ ClaimedActive(transactions[i], 1, durationYears)
       /\ transactions[j].type = "once"
       /\ transactions[j].startYear = 1
       /\ transactions[j].amount.neg
       /\ ~WholeScaled(transactions[j].amount, 0)
  /\ results[1].deposits # 0

\* initialCapital plus the amounts added up to month k of year y
RECURSIVE ClaimedPrincipal(_, _, _, _, _)
ClaimedPrincipal(capital, txs, y, k, dur) ==
  IF y = 1 THEN DAdd(capital, ClaimedYearSum(txs, 1, k, dur))
  ELSE DAdd(ClaimedPrincipal(capital, txs, y - 1, 12, dur),
           ClaimedYearSum(txs, y, k, dur))

\* the balances after the months so far and the balance of the last record
C5_Balances ==
  LET principal == ClaimedPrincipal(initialCapital, transactions, year,
                                    month - 1, durationYears)
      last == Len(results)
  IN  /\ ~reinvestGains => currentBalance = principal
      /\ reinvestGains => Close(currentBalance, DAdd(principal, totalGains))
      /\ (last >= 1 /\ month = 1) =>
           results[last].balance =
             DRound(IF reinvestGains THEN currentBalance
                       ELSE DAdd(principal, totalGains))

\* a month without reinvestment: the gain is that of the principal
C5_MonthStep ==
  (pc = "calc" /\ month' = month + 1 /\ ~reinvestGains) =>
    LET principal == ClaimedPrincipal(initialCapital, transactions, year,
                                      month, durationYears)
        gain == DMul(principal, MonthlyRate(ClaimedRate(yieldPhases, year)))
    IN  /\ currentBalance' = principal
        /\ totalGains' = DAdd(totalGains, gain)
        /\ yearReturns' = DAdd(yearReturns, gain)

\* C5: without reinvestment the working balance is initialCapital plus the
\* amounts applied so far, each month's gain is that of this principal-only
\* balance, and the balance recorded for a year is round(principal at the
\* end of the year + all gains so far); with reinvestment the recorded
\* balance is round(working balance), which holds the gains.
C5_ReinvestModes == [](C5_Balances) /\ [][C5_MonthStep]_vars

\* an evaluation without reinvestment returned: deposits were applied, gains
\* accumulated, and the recorded balance is more than the working balance
C5_Witness ==
  /\ pc = "done"
  /\ ~reinvestGains
  /\ currentBalance # initialCapital
  /\ DLess(DZero, totalGains)
  /\ results[Len(results)].balance > DRound(currentBalance)

\* the configuration of lines 528-532
ReferenceConfig ==
  /\ initialCapital = DInt(30000)
  /\ durationYears = 15
  /\ reinvestGains
  /\ yieldPhases = <<Phase(1, 1, 15, 6, FALSE)>>
  /\ transactions = <<Transaction(1, DInt(500), "monthly", 1, 15, FALSE)>>

\* a month of balance_m = balance_{m-1} * (1 + r_m) + deposit
GrowThenDepositMonth(before, deposit, rate) ==
  DAdd(DAdd(before, DMul(before, MonthlyRate(rate))), deposit)

\* balance_1, ..., balance_m of that recurrence from balance_0 = start; the
\* months are split in halves to bound the depth of the evaluation
RECURSIVE GrowThenDeposit(_, _, _, _)
GrowThenDeposit(start, deposit, rate, m) ==
  IF m = 1 THEN <<GrowThenDepositMonth(start, deposit, rate)>>
  ELSE LET first == GrowThenDeposit(start, deposit, rate, m \div 2)
       IN  first \o GrowThenDeposit(first[Len(first)], deposit, rate,
                                    m - m \div 2)

\* a month of balance_m = (balance_{m-1} + deposit) * (1 + r_m)
DepositThenGrowMonth(before, deposit, rate) ==
  LET with == DAdd(before, deposit)
  IN  DAdd(with, DMul(with, MonthlyRate(rate)))

\* balance_1, ..., balance_m of that recurrence from balance_0 = start
RECURSIVE DepositThenGrow(_, _, _, _)
DepositThenGrow(start, deposit, rate, m) ==
  IF m = 1 THEN <<DepositThenGrowMonth(start, deposit, rate)>>
  ELSE LET first == DepositThenGrow(start, deposit, rate, m \div 2)
       IN  first \o DepositThenGrow(first[Len(first)], deposit, rate,
                                    m - m \div 2)

\* C6 as stated: on the reference configuration the balance of year 15 is
\* that of balance_m = balance_{m-1} * (1 + r_m) + deposit over 180 months
\* from 30000.
C6_AsStated ==
  (pc = "done" /\ ReferenceConfig) =>
    results[15].balance =
      DRound(GrowThenDeposit(DInt(30000), DInt(500), 6, 180)[180])

\* C6: on the reference configuration the balance of year 15 is that of
\* balance_m = (balance_{m-1} + deposit) * (1 + r_m) with
\* r_m = 1.06^(1/12) - 1 over 180 months from 30000: the deposit of a month
\* earns that month's gain.
C6_ReferenceBalance ==
  (pc = "done" /\ ReferenceConfig) =>
    results[15].balance =
      DRound(DepositThenGrow(DInt(30000), DInt(500), 6, 180)[180])

\* the reference evaluation returned; its last balance is 216051
C6_Witness ==
  /\ pc = "done"
  /\ ReferenceConfig
  /\ Len(results) = 15
  /\ results[15].balance = 216051

\* the occurrence count the specification gives a transaction
ClaimedCount(t, dur) ==
  IF t.type = "monthly" THEN (ClaimedEnd(t, dur) - t.startYear + 1) * 12
  ELSE 1

RECURSIVE ClaimedInvestedSum(_, _)
ClaimedInvestedSum(txs, dur) ==
  IF txs = <<>> THEN DZero
  ELSE DAdd(DTimes(Head(txs).amount, ClaimedCount(Head(txs), dur)),
           ClaimedInvestedSum(Tail(txs), dur))

\* C7: totalInvested is initialCapital plus, for every transaction, amount
\* times its occurrence count: (effectiveEnd - startYear + 1) * 12 for a
\* monthly one, effectiveEnd being durationYears unless customDuration and
\* endYear otherwise, and 1 for a once one.
C7_TotalInvested ==
  pc \in {"tax", "end"} =>
    totalInvested =
      DAdd(initialCapital, ClaimedInvestedSum(transactions, durationYears))

\* totalInvested was evaluated on a non-custom monthly transaction whose
\* endYear is not durationYears, together with a once transaction
C7_Witness ==
  /\ pc = "tax"
  /\ \E i, j \in 1..Len(transactions) :
       /\ transactions[i].type = "monthly"
       /\ ~transactions[i].customDuration
       /\ transactions[i].endYear # durationYears
       /\ transactions[j].type = "once"
  /\ totalInvested # initialCapital

(***************************************************************************)
(* Further claims on calculateData, checked under Spec.                    *)
(***************************************************************************)
\* the phases whose range is not inverted
RegularPhases(phases) ==
  SelectSeq(phases, LAMBDA p : p.startYear <= p.endYear)

\* the transactions other than the custom monthly ones of an inverted range
RegularTransactions(txs) ==
  SelectSeq(txs, LAMBDA t : ~(t.type = "monthly" /\ t.customDuration
                              /\ t.startYear > t.endYear))

\* C13: inverted year ranges match nothing and stop nothing: a phase with
\* startYear > endYear gives the rate of no year, a custom monthly
\* transaction with startYear > endYear adds to the balance and to the
\* deposits of no year (the rates, the deposits and the principal in the
\* balance are those of the configuration without these items), and the
\* evaluation returns its durationYears records.
C13_InvertedRanges ==
  /\ \A k \in 1..Len(results) :
       /\ results[k].rate = ClaimedRate(RegularPhases(yieldPhases), k)
       /\ results[k].deposits =
            DRound(ClaimedYearSum(RegularTransactions(transactions), k,
                                     12, durationYears))
  /\ pc = "calc" =>
       /\ yearDeposits =
            ClaimedYearSum(RegularTransactions(transactions), year,
                           month - 1, durationYears)
       /\ Close(currentBalance,
                DAdd(ClaimedPrincipal(initialCapital,
                                      RegularTransactions(transactions),
                                      year, month - 1, durationYears),
                     IF reinvestGains THEN totalGains ELSE DZero))
  /\ pc # "calc" => Len(results) = durationYears

\* an evaluation returned on a configuration with an inverted phase and an
\* inverted custom monthly transaction, both starting within the duration
C13_Witness ==
  /\ pc = "done"
  /\ \E i \in 1..Len(yieldPhases) :
       /\ yieldPhases[i].startYear > yieldPhases[i].endYear
       /\ yieldPhases[i].startYear <= durationYears
       /\ results[yieldPhases[i].startYear].rate # yieldPhases[i].rate
  /\ \E j \in 1..Len(transactions) :
       /\ transactions[j].type = "monthly"
       /\ transactions[j].customDuration
       /\ transactions[j].startYear > transactions[j].endYear
       /\ transactions[j].startYear <= durationYears
  /\ Len(results) = durationYears
  /\ results[1].deposits = 6000

\* x after the amounts that the transactions add in month m of year y
\* were added to it, one after the other in list order
RECURSIVE ClaimedApplied(_, _, _, _, _)
ClaimedApplied(x, txs, y, m, dur) ==
  IF txs = <<>> THEN x
  ELSE ClaimedApplied(IF ClaimedActive(Head(txs), y, dur)
                         /\ (Head(txs).type = "monthly" \/ m = 1)
                      THEN DAdd(x, Head(txs).amount) ELSE x,
                      Tail(txs), y, m, dur)

\* the gain of a month on the balance with, and its booking
ClaimedBooking(with, gain) ==
  /\ yearReturns' = DAdd(yearReturns, gain)
  /\ totalGains' = DAdd(totalGains, gain)
  /\ currentBalance' = IF reinvestGains THEN DAdd(with, gain) ELSE with

\* a month: the transactions first, the gain on the balance that holds
\* their amounts, then the gain joins the balance when reinvestGains
C15_MonthStep ==
  (pc = "calc" /\ month' = month + 1) =>
    /\ yearDeposits' =
         ClaimedApplied(yearDeposits, transactions, year, month,
                        durationYears)
    /\ ClaimedBooking(
         ClaimedApplied(currentBalance, transactions, year, month,
                        durationYears),
         DMul(ClaimedApplied(currentBalance, transactions, year, month,
                             durationYears),
              MonthlyRate(ClaimedRate(yieldPhases, year))))

\* C15: in every month the active transactions are applied to the balance
\* first, monthlyGain = balance * monthlyRate is taken on the balance that
\* holds the month's deposits, and the gain joins the balance only when
\* reinvestGains: then balance_m = (balance_{m-1} + deposits_m) *
\* (1 + monthlyRate), a deposit earning the gain of its own month.
C15_StepOrder == [][C15_MonthStep]_vars

\* the first month of a reinvesting evaluation has passed: the gain is that
\* of the capital with the deposit, more than that of the capital alone
C15_Witness ==
  /\ pc = "calc"
  /\ year = 1
  /\ month = 2
  /\ reinvestGains
  /\ DLess(DZero, yearDeposits)
  /\ yearReturns =
       DMul(DAdd(initialCapital, yearDeposits),
           MonthlyRate(ClaimedRate(yieldPhases, 1)))
  /\ DLess(DMul(initialCapital, MonthlyRate(ClaimedRate(yieldPhases, 1))),
          yearReturns)
  /\ currentBalance = DAdd(DAdd(initialCapital, yearDeposits), yearReturns)

\* the value a record reports as balance, before Math.round
ReportedValue(s, reinvest) ==
  IF reinvest THEN s.currentBalance ELSE DAdd(s.currentBalance, s.totalGains)

\* the locals after the months m..12 of year y, from the locals s
RECURSIVE MonthsFrom(_, _, _)
MonthsFrom(s, y, m) ==
  IF m > 12 THEN s
  ELSE MonthsFrom(MonthBody(s, transactions, yieldPhases, durationYears,
                            reinvestGains, y, m), y, m + 1)

\* the locals at the end of each of the years y..k, s being the locals the
\* year y is entered with
RECURSIVE YearEnds(_, _, _)
RECURSIVE ThenYearEnds(_, _, _)
YearEnds(s, y, k) ==
  IF y > k THEN <<>>
  ELSE ThenYearEnds(MonthsFrom([s EXCEPT !.yearDeposits = DZero,
                                         !.yearReturns = DZero], y, 1),
                    y, k)

ThenYearEnds(e, y, k) == <<e>> \o YearEnds(e, y + 1, k)

\* the sum of the unrounded yearDeposits and yearReturns of ends
RECURSIVE YearSums(_)
YearSums(ends) ==
  IF ends = <<>> THEN DZero
  ELSE DAdd(DAdd(Head(ends).yearDeposits, Head(ends).yearReturns),
           YearSums(Tail(ends)))

\* the locals at the end of year k are the last of ends, and the value
\* reported for it is the capital plus the deposits and returns of ends
Conserved(ends, k) ==
  /\ Len(ends) = k
  /\ ends[k] = locals
  /\ Close(ReportedValue(locals, reinvestGains),
           DAdd(initialCapital, YearSums(ends)))

\* C16: at the end of every year k the unrounded value reported as balance
\* (the working balance with reinvestGains, the working balance plus
\* totalGains without) is initialCapital plus the unrounded yearDeposits of
\* the years 1..k plus the unrounded yearReturns of the years 1..k.
C16_Conservation ==
  (pc = "calc" /\ month > 12) =>
    Conserved(YearEnds([currentBalance |-> initialCapital,
                        totalGains |-> DZero, yearDeposits |-> DZero,
                        yearReturns |-> DZero], 1, year), year)

\* the second year of an evaluation without reinvestment ended, with
\* deposits and returns in it and gains from the year before
C16_Witness ==
  /\ pc = "calc"
  /\ month > 12
  /\ year = 2
  /\ ~reinvestGains
  /\ yearDeposits # DZero
  /\ yearReturns # DZero
  /\ totalGains # yearReturns
  /\ ReportedValue(locals, reinvestGains) # currentBalance

(***************************************************************************)
(* The claims on taxInfo, checked under SpecTax.                           *)
(***************************************************************************)
\* whether x is a multiple of 1/4
InQuarters(x) == ~DIsNaN(x) /\ (DIsZero(x) \/ WholeScaled(x, 2))

\* 4 * x for a multiple x of 1/4
Quarters(x) ==
  IF DIsZero(x) THEN 0
  ELSE IF x.neg THEN -FloorScaled(x, 2) ELSE FloorScaled(x, 2)

\* whether x is a whole number
IsWhole(x) == ~DIsNaN(x) /\ (DIsZero(x) \/ WholeScaled(x, 0))

\* x for a whole number x
Units(x) ==
  IF DIsZero(x) THEN 0
  ELSE IF x.neg THEN -FloorScaled(x, 0) ELSE FloorScaled(x, 0)

\* 4 * max(0, finalBalance - totalInvested)
ClaimedGains4 ==
  IF 4 * finalBalance > Quarters(totalInvested)
  THEN 4 * finalBalance - Quarters(totalInvested)
  ELSE 0

\* 32000 * (gains * 0.70 - 1000) * 0.26375, gains being ClaimedGains4 / 4:
\* 0.70 / 4 = 7 / 40 and 0.26375 = 211 / 800
ClaimedTax32000 == 211 * (7 * ClaimedGains4 - 40000)

\* C8: taxInfo returns gains = max(0, finalBalance - totalInvested),
\* tax = round(max(0, gains * 0.70 - 1000) * 0.26375) and
\* afterTax = finalBalance - tax; gains of 5000 are taxable at 3500, 2500
\* after the allowance, and give a tax of 659.  The tax is a whole number
\* nearest to the product; where the product is half a whole number,
\* Math.round gets the product of the doubles, which is the half or just
\* below it.
C8_TaxFormula ==
  pc = "end" =>
    /\ Quarters(taxInfo.gains) = ClaimedGains4
    /\ InQuarters(taxInfo.gains)
    /\ IF ClaimedTax32000 <= 0 THEN taxInfo.tax = 0
       ELSE /\ 16000 * (2 * taxInfo.tax - 1) <= ClaimedTax32000
            /\ ClaimedTax32000 <= 16000 * (2 * taxInfo.tax + 1)
    /\ taxInfo.afterTax = finalBalance - taxInfo.tax
    /\ ClaimedGains4 = 4 * 5000 =>
         /\ 7 * ClaimedGains4 = 40 * 3500
         /\ ClaimedTax32000 = 40 * 2500 * 211
         /\ taxInfo.tax = 659

\* taxInfo was evaluated on gains of 5000 and returned a tax of 659
C8_Witness ==
  /\ pc = "end"
  /\ totalInvested = DInt(finalBalance - 5000)
  /\ taxInfo.gains = DInt(5000)
  /\ taxInfo.tax = 659
  /\ taxInfo.afterTax = finalBalance - 659

\* C9: whenever finalBalance <= totalInvested, taxInfo returns gains = 0,
\* tax = 0, afterTax = finalBalance and the effectiveRate "0.0": the
\* quotient tax / gains is not formed.
C9_NoGains ==
  (pc = "end" /\ ~DLess(totalInvested, DInt(finalBalance))) =>
    /\ taxInfo.gains = DZero
    /\ taxInfo.tax = 0
    /\ taxInfo.afterTax = finalBalance
    /\ taxInfo.effectiveRate = "0.0"

\* taxInfo was evaluated on a final balance below the invested sum
C9_Witness ==
  /\ pc = "end"
  /\ DLess(DInt(finalBalance), totalInvested)
  /\ taxInfo.tax = 0
  /\ taxInfo.afterTax = finalBalance
  /\ taxInfo.effectiveRate = "0.0"

\* C22: for a whole finalBalance and a whole totalInvested taxInfo returns
\* 0 <= tax <= gains, so afterTax >= finalBalance - gains, which is
\* totalInvested when gains > 0, and tax = 0 whenever gains * 0.70 <= 1000.
C22_TaxBounded ==
  (pc = "end" /\ IsWhole(totalInvested)) =>
    /\ IsWhole(taxInfo.gains)
    /\ 0 <= taxInfo.tax
    /\ taxInfo.tax <= Units(taxInfo.gains)
    /\ taxInfo.afterTax >= finalBalance - Units(taxInfo.gains)
    /\ Units(taxInfo.gains) > 0 =>
         taxInfo.afterTax >= Units(totalInvested)
    /\ 70 * Units(taxInfo.gains) <= 100 * 1000 => taxInfo.tax = 0

\* taxInfo was evaluated on whole numbers with gains above the allowance
\* and returned a tax above 0 and below the gains
C22_Witness ==
  /\ pc = "end"
  /\ IsWhole(totalInvested)
  /\ finalBalance > Units(totalInvested)
  /\ taxInfo.gains = DInt(finalBalance - Units(totalInvested))
  /\ 70 * Units(taxInfo.gains) > 100 * 1000
  /\ taxInfo.tax > 0
  /\ taxInfo.tax < Units(taxInfo.gains)
  /\ taxInfo.afterTax > Units(totalInvested)

(***************************************************************************)
(* The claims on etfBenchmarks, checked under SpecEtf.                     *)
(***************************************************************************)
\* the years from..to that a returns table holds
ClaimedPresent(returns, from, to) == (from..to) \cap DOMAIN returns

\* the product of 1 + return / 100 over the years from..to the table holds,
\* in ascending order
RECURSIVE ClaimedCumulative(_, _, _)
ClaimedCumulative(returns, from, to) ==
  IF to < from THEN One
  ELSE IF to \in DOMAIN returns
       THEN Mul(ClaimedCumulative(returns, from, to - 1),
                GrowthFactor(returns[to]))
       ELSE ClaimedCumulative(returns, from, to - 1)

\* C10: for every index and duration, with the window
\* [2025 - durationYears + 1, 2025]: cumulative compounds the years of the
\* window the returns table holds and no others, yearsAvailable is the
\* number of these years, yearsRequested is durationYears, and fromYear and
\* toYear are the smallest and largest of them.
C10_EtfWindow ==
  /\ (pc = "etf" /\ etfIndex <= Len(etfData)) =>
       /\ cumulative =
            ClaimedCumulative(etfData[etfIndex].returns,
                              2025 - durationYears + 1, etfYear - 1)
       /\ Len(years) =
            Cardinality(ClaimedPresent(etfData[etfIndex].returns,
                                       2025 - durationYears + 1,
                                       etfYear - 1))
  /\ \A k \in 1..Len(etfBenchmarks) :
       LET present == ClaimedPresent(etfData[k].returns,
                                     2025 - durationYears + 1, 2025)
           b == etfBenchmarks[k]
       IN  /\ b.ticker = etfData[k].ticker
           /\ b.yearsAvailable = Cardinality(present)
           /\ b.yearsRequested = durationYears
           /\ present # {} =>
                /\ b.fromYear = <<CHOOSE y \in present :
                                    \A z \in present : y <= z>>
                /\ b.toYear = <<CHOOSE y \in present :
                                  \A z \in present : z <= y>>
  /\ pc = "etfdone" => Len(etfBenchmarks) = Len(etfData)

\* etfBenchmarks returned on a window that starts before the first year of
\* an index: fewer years are available than requested
C10_Witness ==
  /\ pc = "etfdone"
  /\ \E k \in 1..Len(etfBenchmarks) :
       /\ etfBenchmarks[k].yearsAvailable < etfBenchmarks[k].yearsRequested
       /\ etfBenchmarks[k].yearsAvailable = 14
       /\ etfBenchmarks[k].fromYear = <<2012>>
       /\ etfBenchmarks[k].toYear = <<2025>>

\* C23: with the table etfData, for every durationYears >= 1 every index
\* has yearsAvailable >= 1, toYear = 2025,
\* yearsAvailable = min(durationYears, 2025 - inception) <= yearsRequested
\* and a cagr that is not null: no index is without data for the period.
C23_EtfData ==
  /\ \A k \in 1..Len(etfBenchmarks) :
       /\ etfBenchmarks[k].inception = etfData[k].inception
       /\ etfBenchmarks[k].yearsAvailable >= 1
       /\ etfBenchmarks[k].toYear = <<2025>>
       /\ etfBenchmarks[k].yearsAvailable =
            IF durationYears <= 2025 - etfData[k].inception
            THEN durationYears ELSE 2025 - etfData[k].inception
       /\ etfBenchmarks[k].yearsAvailable <= etfBenchmarks[k].yearsRequested
       /\ etfBenchmarks[k].cagr # Null
       /\ etfBenchmarks[k].fromYear # Null
  /\ pc = "etfdone" => Len(etfBenchmarks) = Len(etfData)

\* etfBenchmarks returned for a duration that one index covers in full and
\* another index, younger than the duration, does not; both have a cagr
C23_Witness ==
  /\ pc = "etfdone"
  /\ Len(etfBenchmarks) = Len(etfData)
  /\ \E j, k \in 1..Len(etfBenchmarks) :
       /\ etfBenchmarks[j].yearsAvailable = durationYears
       /\ etfBenchmarks[j].cagr # Null
       /\ etfBenchmarks[k].yearsAvailable = 2025 - etfData[k].inception
       /\ etfBenchmarks[k].yearsAvailable < durationYears
       /\ etfBenchmarks[k].cagr # Null

(***************************************************************************)
(* The claims on the editor, checked under SpecEdit.                       *)
(***************************************************************************)
\* C11 as stated: in every state the editor reaches by moving the duration
\* slider up or down, addPhase, removePhase and toggleCustomDuration, every
\* phase with customDuration = false has startYear = 1 and
\* endYear = durationYears.
C11_AsStated ==
  pc = "idle" =>
    \A i \in 1..Len(yieldPhases) :
      ~yieldPhases[i].customDuration =>
        /\ yieldPhases[i].startYear = 1
        /\ yieldPhases[i].endYear = durationYears

\* C18: right after addPhase the new phase is the last one, is not custom,
\* has the rate 5 and spans 1..durationYears, so the rate of every year
\* 1..durationYears is 5 whatever the phases before it are.
C18_AddPhaseShadows ==
  [][AddPhase =>
       /\ Len(yieldPhases') = Len(yieldPhases) + 1
       /\ SubSeq(yieldPhases', 1, Len(yieldPhases)) = yieldPhases
       /\ yieldPhases'[Len(yieldPhases')].rate = 5
       /\ ~yieldPhases'[Len(yieldPhases')].customDuration
       /\ yieldPhases'[Len(yieldPhases')].startYear = 1
       /\ yieldPhases'[Len(yieldPhases')].endYear = durationYears'
       /\ \A y \in 1..durationYears' : PhaseRate(yieldPhases', y) = 5]_vars

\* a phase of rate 5 that spans the duration stands after a custom phase of
\* rate 6 that covers years of the duration, and gives the rate of each year
C18_Witness ==
  /\ pc = "idle"
  /\ Len(yieldPhases) = 2
  /\ yieldPhases[1].rate = DefaultRate
  /\ yieldPhases[1].customDuration
  /\ yieldPhases[1].endYear >= durationYears
  /\ yieldPhases[2].rate = 5
  /\ yieldPhases[2].id > yieldPhases[1].id
  /\ ~yieldPhases[2].customDuration
  /\ yieldPhases[2].endYear = durationYears
  /\ \A y \in 1..durationYears : PhaseRate(yieldPhases, y) = 5

\* the item is of the current format: every property is there
CurrentFormat(item) ==
  /\ item # Null
  /\ "reinvestGains" \in DOMAIN item[1]
  /\ \A i \in 1..Len(item[1].yieldPhases) :
       "customDuration" \in DOMAIN item[1].yieldPhases[i]
  /\ \A i \in 1..Len(item[1].transactions) :
       /\ "customDuration" \in DOMAIN item[1].transactions[i]
       /\ "endYear" \in DOMAIN item[1].transactions[i]

\* C19 as stated: when the item saveToLocal stored is of the current format,
\* the refs after a fresh start, loadFromLocal and the watchers it triggers
\* are those of the item, the startYear and endYear of every phase and
\* transaction included.
C19_AsStated ==
  [][(OnMounted /\ CurrentFormat(localStorage)) =>
       Snapshot(initialCapital', durationYears', reinvestGains',
                yieldPhases', transactions') = localStorage[1]]_vars

\* the endYear the claim gives an item after the duration changed
ClaimedEndYear(item, extends, newVal, oldVal) ==
  IF newVal > oldVal /\ extends
       /\ (~item.customDuration \/ item.endYear = oldVal)
  THEN newVal ELSE item.endYear

\* the phase q is what the claim makes of the phase p
ClaimedPhaseChange(p, q, newVal, oldVal) ==
  /\ q.id = p.id
  /\ q.rate = p.rate
  /\ q.customDuration = p.customDuration
  /\ q.startYear = IF newVal > oldVal /\ ~p.customDuration
                   THEN 1 ELSE p.startYear
  /\ q.endYear = ClaimedEndYear(p, TRUE, newVal, oldVal)

\* the transaction u is what the claim makes of the transaction t
ClaimedTransactionChange(t, u, newVal, oldVal) ==
  /\ u.id = t.id
  /\ u.amount = t.amount
  /\ u.type = t.type
  /\ u.customDuration = t.customDuration
  /\ u.startYear = t.startYear
  /\ u.endYear = ClaimedEndYear(t, t.type = "monthly", newVal, oldVal)

\* C20: when the slider changes durationYears from old to new > old, every
\* non-custom phase becomes 1..new, every custom phase with endYear = old
\* gets endYear = new, every monthly transaction that is non-custom or has
\* endYear = old gets endYear = new with its startYear kept, and nothing
\* else changes; when new <= old no phase and no transaction changes.
C20_AutoExtend ==
  [][(pc = "idle" /\ pc' = "idle" /\ durationYears' # durationYears) =>
       /\ Len(yieldPhases') = Len(yieldPhases)
       /\ \A i \in 1..Len(yieldPhases) :
            ClaimedPhaseChange(yieldPhases[i], yieldPhases'[i],
                               durationYears', durationYears)
       /\ Len(transactions') = Len(transactions)
       /\ \A i \in 1..Len(transactions) :
            ClaimedTransactionChange(transactions[i], transactions'[i],
                                     durationYears', durationYears)
       /\ durationYears' > durationYears \/
            (yieldPhases' = yieldPhases /\ transactions' = transactions)
       /\ UNCHANGED <<initialCapital, reinvestGains>>]_vars

\* the duration is above the constructed one; a custom phase ends with it,
\* another custom phase ends before it, and so does a non-custom once
\* transaction
C20_Witness ==
  /\ pc = "idle"
  /\ durationYears > DefaultDuration
  /\ \E i, j \in 1..Len(yieldPhases) :
       /\ yieldPhases[i].customDuration
       /\ yieldPhases[i].endYear = durationYears
       /\ yieldPhases[j].customDuration
       /\ yieldPhases[j].endYear < durationYears
  /\ \E k \in 1..Len(transactions) :
       /\ transactions[k].type = "once"
       /\ transactions[k].endYear < durationYears

\* the item b is what the claim makes of the item a when it is toggled
ClaimedToggle(a, b, dur) ==
  /\ DOMAIN b = DOMAIN a
  /\ \A f \in DOMAIN a \ {"customDuration", "startYear", "endYear"} :
       b[f] = a[f]
  /\ b.customDuration = ~a.customDuration
  /\ b.startYear = IF b.customDuration THEN a.startYear ELSE 1
  /\ b.endYear = IF b.customDuration THEN a.endYear ELSE dur

\* the list after is the list before with the item at i toggled
ClaimedToggleAt(before, after, i, dur) ==
  /\ Len(after) = Len(before)
  /\ ClaimedToggle(before[i], after[i], dur)
  /\ \A j \in 1..Len(before) : j # i => after[j] = before[j]

\* toggled on and then off, the non-custom item a spans 1..dur and is
\* non-custom again
ClaimedOnAndOff(a, dur) ==
  ~a.customDuration =>
    ToggleCustomDuration(ToggleCustomDuration(a, dur), dur) =
      [a EXCEPT !.startYear = 1, !.endYear = dur]

\* C21: toggleCustomDuration flips customDuration of the given phase or
\* transaction; when the result is custom startYear and endYear are kept,
\* when it is non-custom startYear becomes 1 and endYear the current
\* durationYears; no other property, no other item and no other ref
\* changes, and an item toggled on and then off spans 1..durationYears.
C21_ToggleFrame ==
  [][(TogglePhase \/ ToggleTransaction) =>
       /\ UNCHANGED <<initialCapital, durationYears, reinvestGains>>
       /\ \/ /\ transactions' = transactions
             /\ \E i \in 1..Len(yieldPhases) :
                  ClaimedToggleAt(yieldPhases, yieldPhases', i,
                                  durationYears)
          \/ /\ yieldPhases' = yieldPhases
             /\ \E i \in 1..Len(transactions) :
                  ClaimedToggleAt(transactions, transactions', i,
                                  durationYears)
       /\ \A i \in 1..Len(yieldPhases) :
            ClaimedOnAndOff(yieldPhases[i], durationYears)
       /\ \A i \in 1..Len(transactions) :
            ClaimedOnAndOff(transactions[i], durationYears)]_vars

\* the constructed phase was toggled on and off below the constructed
\* duration and spans it again, next to a custom phase that kept its years,
\* and the transaction was toggled on and kept an endYear that is not the
\* duration
C21_Witness ==
  /\ pc = "idle"
  /\ durationYears < DefaultDuration
  /\ Len(yieldPhases) = 2
  /\ yieldPhases[1].id = 1
  /\ ~yieldPhases[1].customDuration
  /\ yieldPhases[1].startYear = 1
  /\ yieldPhases[1].endYear = durationYears
  /\ yieldPhases[2].customDuration
  /\ yieldPhases[2].endYear # durationYears
  /\ \E k \in 1..Len(transactions) :
       /\ transactions[k].customDuration
       /\ transactions[k].type = "monthly"
       /\ transactions[k].endYear # durationYears

(***************************************************************************)
(* The claim on the deposits the editor leaves, checked under              *)
(* SpecInvested.                                                           *)
(***************************************************************************)
\* the sum of the deposits of the records
RECURSIVE RecordedDeposits(_)
RecordedDeposits(records) ==
  IF records = <<>> THEN 0
  ELSE Head(records).deposits + RecordedDeposits(Tail(records))

\* C17 as stated: in every state the editor reaches by moving the duration
\* slider, addTransaction, removeTransaction, toggleCustomDuration and the
\* type select, with whole amounts, totalInvested is initialCapital plus
\* the deposits of all the records of calculateData.
C17_AsStated ==
  pc \in {"tax", "end"} =>
    totalInvested =
      DAdd(initialCapital, DInt(RecordedDeposits(results)))

(***************************************************************************)
(* The claims on values that are not checked, under SpecUnchecked.         *)
(***************************************************************************)
\* C12 as stated: no record of calculateData and no value of taxInfo is
\* NaN; a rate that makes an intermediate result NaN ends the evaluation
\* in a failure before a record is pushed or taxInfo returns.
C12_AsStated ==
  /\ \A k \in 1..Len(results) :
       /\ results[k].balance # NaNInt
       /\ results[k].deposits # NaNInt
       /\ results[k].returns # NaNInt
  /\ pc = "end" =>
       /\ ~DIsNaN(taxInfo.gains)
       /\ taxInfo.tax # NaNInt
       /\ taxInfo.afterTax # NaNInt
       /\ taxInfo.inTodaysMoney # NaNInt

\* C14 as stated: with a transaction whose type is neither 'monthly' nor
\* 'once' the engine rejects the input: calculateData pushes no record and
\* returns nothing, and totalInvested is not computed.
C14_AsStated ==
  (\E i \in 1..Len(transactions) :
     transactions[i].type \notin {"monthly", "once"}) =>
    /\ results = <<>>
    /\ pc = "calc"
=============================================================================
